---- MODULE Spec2Model ----
(***************************************************************************)
(* Model of AccessibilityAnalyzer (src/modeules/accessibility_analysis.py). *)
(*                                                                         *)
(* One analyzer object is constructed with a class map and a threshold     *)
(* distance; analyze(seg_map) is then called on a label grid.  The call is *)
(* modelled block by block (stairs, door, sidewalk, building, railing,     *)
(* score), each block of the source being one action.                      *)
(*                                                                         *)
(* A label grid is a record [h, w, lab]: h rows, w columns, and lab the    *)
(* class IDs of the first Len(lab) cells in row-major order (cell i is row *)
(* (i-1) \div w, column (i-1) % w).  Every cell after those holds          *)
(* Background, an ID that no class map uses.                               *)
(*                                                                         *)
(* Numbers.  A ratio pixel_count / total_pixels is kept as the exact       *)
(* fraction [num, den]; the float comparisons ratio < 0.01 etc. are exact  *)
(* fraction comparisons (the two differ only for grids of more than 10^15  *)
(* cells).  A distance is kept as its square, an integer (sqrt is strictly *)
(* increasing, so d < t iff d^2 < t^2 for t >= 0); float('inf') is Inf.    *)
(*                                                                         *)
(* The functions around the analyzer have a specification each, over a     *)
(* variable of their own: SpecExplain (get_accessibility_explanation),     *)
(* SpecNearest (find_nearest_facility), SpecLookup (get_facility_info),    *)
(* SpecParse (_parse_llm_response), SpecBatch (process_directory),         *)
(* SpecConcurrent (two analyze calls side by side on one generator),       *)
(* SpecTight (the analyzer built with a threshold of at most one cell),    *)
(* SpecFetch (get_facility_list over fetch_with_retry), SpecPrompt         *)
(* (create_prompt), SpecClient (APIClient._send_request_with_retry),       *)
(* SpecImage (LLMAnalyzer.analyze_image) and SpecSupervisor                *)
(* (start_servers.main).                                                   *)
(***************************************************************************)
EXTENDS Integers, Sequences, FiniteSets, TLC

(* ------------------------------ bounds -------------------------------- *)
\* At most MaxObjects cells of a grid hold a tracked class ID.
MaxObjects == 3
\* The tracked cells lie among the first WinCells cells of the grid.
WinCells == 6

\* Grid shapes <<h, w>> analysed: two empty ones, a square one of 100 cells,
\* a tall one of 200 cells.
Shapes == { <<0, 0>>, <<0, 3>>, <<10, 10>>, <<100, 2>> }
\* Values of ACCESSIBILITY_THRESHOLD_DISTANCE the analyzer is built with.
Thresholds == {2, 5}

(* --------------------------- class maps ------------------------------- *)
Background == 0
FullMap == [stairs |-> 1, door |-> 2, sidewalk |-> 3, building |-> 4, railing |-> 5]
\* two names sharing one ID
SharedIdMap == [stairs |-> 1, door |-> 1, sidewalk |-> 3, building |-> 4, railing |-> 5]
\* a map without an entry for a tracked name
NoStairsMap == [door |-> 2, sidewalk |-> 3, building |-> 4, railing |-> 5]
ClassMaps == {FullMap, SharedIdMap, NoStairsMap}
ClassIds == 1..5

Min2(a, b) == IF a <= b THEN a ELSE b
Max2(a, b) == IF a >= b THEN a ELSE b

\* The contents of the first cells of a grid of n cells: at most WinCells
\* cells are listed, at most MaxObjects of them hold a tracked class ID.
Labellings(n) ==
  { f \in [1..Min2(n, WinCells) -> {Background} \cup ClassIds] :
      Cardinality({i \in DOMAIN f : f[i] # Background}) <= MaxObjects }
\* The label grid of shape s whose first cells hold l.
Grid(s, l) == [h |-> s[1], w |-> s[2], lab |-> l]

(* --------------------------- dictionaries ----------------------------- *)
\* dict.get(k, default)
Get(d, k, default) == IF k \in DOMAIN d THEN d[k] ELSE default
\* d[k] = v
Put(d, k, v) == (k :> v) @@ d
\* x in list
InList(x, list) == \E i \in 1..Len(list) : list[i] = x

(* ------------------------------ state --------------------------------- *)
VARIABLES
  class_map,           \* self.class_map
  threshold_distance,  \* self.threshold_distance
  seg_map,             \* the argument of the running analyze call
  accessibility_info,  \* the dict analyze builds and returns
  indices1, indices2,  \* the index arrays of the last distance computation
  pc,                  \* position in analyze
  raised,              \* the exception that ended the call, or "none"
  explain,             \* a call of get_accessibility_explanation: argument, result
  nearest,             \* a call of find_nearest_facility: arguments, result
  lookup,              \* a call of get_facility_info: argument, remote outcomes, result
  llm,                 \* a call of _parse_llm_response: argument, result
  batch,               \* a run of process_directory: files, position, results
  random_state,        \* the state of the generator behind np.random
  calls,               \* the analyze calls running side by side, one per thread
  fetch,               \* a call of get_facility_list: request outcomes, attempts, result
  prompt,              \* a call of create_prompt: argument, result
  client,              \* a call of APIClient._send_request_with_retry
  analyzer,            \* a call of LLMAnalyzer.analyze_image
  supervisor           \* a run of start_servers.main: processes, signals, position

analyzerVars == <<class_map, threshold_distance, seg_map, accessibility_info,
                  indices1, indices2, pc, raised>>
\* the state outside the analyzer object and its one running call
\* the calls of the network clients and the run of the server supervisor
rest == <<fetch, prompt, client, analyzer, supervisor>>
others == <<explain, nearest, lookup, llm, batch, random_state, calls, rest>>
vars == <<analyzerVars, others>>

\* the value of a variable whose component takes no part in a specification
Unused == "unused"
RestUnused ==
  /\ fetch = Unused /\ prompt = Unused /\ client = Unused
  /\ analyzer = Unused /\ supervisor = Unused

(* ------------------------------ numpy --------------------------------- *)
\* Variant: the mask of a class also covers the cells of every higher ID.
MaskOf_AtLeast(grid, class_id) == [i \in 1..Len(grid.lab) |-> grid.lab[i] >= class_id]

\* seg_map == class_id : a boolean grid, given by its first cells; the rest is False
MaskOf(grid, class_id) == [i \in 1..Len(grid.lab) |-> grid.lab[i] = class_id]
\* np.any(mask)
np_any(mask) == \E i \in 1..Len(mask) : mask[i]
\* np.count_nonzero(mask)
np_count_nonzero(mask) == Cardinality({i \in 1..Len(mask) : mask[i]})
\* seg_map.size
Size(grid) == grid.h * grid.w
\* np.where(mask): the true cells in row-major order
np_where(mask) == SelectSeq([i \in 1..Len(mask) |-> i], LAMBDA i : mask[i])
\* the row and the column of cell i of a grid of width w
RowOf(i, w) == (i - 1) \div w
ColOf(i, w) == (i - 1) % w

Inf == -1
\* a < b and a > b on distances kept as squares, b a threshold
DistLess(d2, t) == d2 # Inf /\ d2 < t * t
DistGreater(d2, t) == d2 = Inf \/ d2 > t * t


(* ------------------- _calculate_object_distance ----------------------- *)
\* The sample size of line 135.
SampleCap == 100
max_samples(len1, len2) == Min2(SampleCap, Min2(len1, len2))

\* np.random.choice(n, k) if n > k else np.arange(n): the index arrays the
\* sampling step can produce for a coordinate list of n points.  The choice
\* is made with NumPy's default replace=True, so every array of k indices
\* is an outcome.
IndexArrays(n, k) ==
  IF n > k THEN [1..k -> 1..n] ELSE { [i \in 1..n |-> i] }

\* Variant: the column term of the distance is dropped.
SquaredDist_RowsOnly(a, b, w) ==
  (RowOf(a, w) - RowOf(b, w)) * (RowOf(a, w) - RowOf(b, w))

\* (y1 - y2)**2 + (x1 - x2)**2 for cells a and b of a grid of width w
SquaredDist(a, b, w) ==
  (RowOf(a, w) - RowOf(b, w)) * (RowOf(a, w) - RowOf(b, w))
  + (ColOf(a, w) - ColOf(b, w)) * (ColOf(a, w) - ColOf(b, w))

\* The nested loop of lines 143-147 over the sampled points.
MinOverSamples(c1, c2, ix1, ix2, w) ==
  LET ds == { SquaredDist(c1[ix1[i]], c2[ix2[j]], w) :
                i \in 1..Len(ix1), j \in 1..Len(ix2) }
  IN IF ds = {} THEN Inf ELSE CHOOSE d \in ds : \A e \in ds : d <= e

\* Variant: 0 instead of infinity for an empty mask.
calculate_object_distance_ZeroWhenEmpty(mask1, mask2, ix1, ix2, w) ==
  IF Len(np_where(mask1)) = 0 \/ Len(np_where(mask2)) = 0
  THEN 0
  ELSE MinOverSamples(np_where(mask1), np_where(mask2), ix1, ix2, w)

\* _calculate_object_distance(mask1, mask2) when the sampling step yields
\* the index arrays ix1 and ix2 (ignored when a mask is empty).
calculate_object_distance(mask1, mask2, ix1, ix2, w) ==
  IF Len(np_where(mask1)) = 0 \/ Len(np_where(mask2)) = 0
  THEN Inf
  ELSE MinOverSamples(np_where(mask1), np_where(mask2), ix1, ix2, w)

\* The pairs of index arrays the sampling step can yield for two masks.
SamplingOutcomes(mask1, mask2) ==
  LET n1 == Len(np_where(mask1))
      n2 == Len(np_where(mask2))
  IN IndexArrays(n1, max_samples(n1, n2)) \X IndexArrays(n2, max_samples(n1, n2))

(* ----------------------- size and width buckets ----------------------- *)
\* pixel_count / total_pixels
Ratio(pixels, total) == [num |-> pixels, den |-> total]
\* ratio < p / 100
RatioLess(ratio, p) == ratio.num * 100 < p * ratio.den

estimate_size(ratio) ==
  IF RatioLess(ratio, 1) THEN "very small"
  ELSE IF RatioLess(ratio, 5) THEN "small"
  ELSE IF RatioLess(ratio, 15) THEN "medium"
  ELSE IF RatioLess(ratio, 30) THEN "large"
  ELSE "very large"

\* Variant: the boundaries 0.01 and 0.03 fall in the lower bucket.
estimate_door_width_Inclusive(ratio) ==
  IF ratio.num * 100 <= ratio.den THEN "narrow"
  ELSE IF ratio.num * 100 <= 3 * ratio.den THEN "standard"
  ELSE "wide"

estimate_door_width(ratio) ==
  IF RatioLess(ratio, 1) THEN "narrow"
  ELSE IF RatioLess(ratio, 3) THEN "standard"
  ELSE "wide"

(* --------------------- _calculate_accessibility_score ----------------- *)
\* Variant: the two stairs branches are not exclusive.
StairsAdjustment_BothBranches(info) ==
  (IF InList("stairs_at_entrance", info.obstacles)
   THEN -5 + (IF Get(info, "has_stairs_railing", FALSE) THEN 1 ELSE 0)
   ELSE 0)
  + (IF info.has_stairs THEN -2 ELSE 0)

StairsAdjustment(info) ==
  IF InList("stairs_at_entrance", info.obstacles)
  THEN -5 + (IF Get(info, "has_stairs_railing", FALSE) THEN 1 ELSE 0)
  ELSE IF info.has_stairs THEN -2 ELSE 0

SidewalkAdjustment(info) ==
  IF InList("disconnected_sidewalk", info.obstacles) THEN -2 ELSE 0

DoorAdjustment(info) ==
  IF Get(info, "has_door", FALSE)
  THEN LET door_width == info.obstacle_details["door"].estimated_width
       IN IF door_width = "narrow" THEN -3
          ELSE IF door_width = "wide" THEN 1 ELSE 0
  ELSE 0

\* Variant: no lower limit.
Clamp_NoFloor(score) == Min2(10, score)

\* max(1, min(10, score))
Clamp(score) == Max2(1, Min2(10, score))

calculate_accessibility_score(info) ==
  Clamp(10 + StairsAdjustment(info) + SidewalkAdjustment(info) + DoorAdjustment(info))

(* ------------------------------ analyze ------------------------------- *)
EmptyGrid == [h |-> 0, w |-> 0, lab |-> <<>>]
NoIndices == <<>>
EmptyDict == <<>>

\* lines 27-33
InitialInfo ==
  [has_stairs |-> FALSE, has_ramp |-> FALSE, entrance_accessible |-> TRUE,
   obstacles |-> <<>>, obstacle_details |-> EmptyDict]

\* d['obstacle_details'][k] = v
PutDetail(info, k, v) == [info EXCEPT !.obstacle_details = Put(@, k, v)]
\* d['obstacles'].append(tag)
AppendObstacle(info, tag) == [info EXCEPT !.obstacles = Append(@, tag)]

Init ==
  /\ RestUnused
  /\ class_map \in ClassMaps
  /\ threshold_distance \in Thresholds
  /\ seg_map = EmptyGrid
  /\ accessibility_info = InitialInfo
  /\ indices1 = NoIndices
  /\ indices2 = NoIndices
  /\ pc = "idle"
  /\ raised = "none"
  /\ explain = Unused /\ nearest = Unused /\ lookup = Unused /\ llm = Unused
  /\ batch = Unused /\ random_state = Unused /\ calls = Unused

\* analyze(seg_map) is called: lines 16-33
Call ==
  /\ pc = "idle"
  /\ \E s \in Shapes : \E l \in Labellings(s[1] * s[2]) : seg_map' = Grid(s, l)
  /\ accessibility_info' = InitialInfo
  /\ pc' = "stairs"
  /\ UNCHANGED <<others, class_map, threshold_distance, indices1, indices2, raised>>

\* self.class_map[name] of a name the map lacks: KeyError leaves analyze
KeyError(name) ==
  /\ name \notin DOMAIN class_map
  /\ pc' = "raised"
  /\ raised' = "KeyError"
  /\ UNCHANGED <<others, class_map, threshold_distance, seg_map, accessibility_info,
                 indices1, indices2>>

\* Variant: the stairs finding sets the flag without the tag.
StairsInfo_FlagOnly(info, stairs_mask, grid) ==
  IF np_any(stairs_mask)
  THEN PutDetail([info EXCEPT !.has_stairs = TRUE],
                 "stairs",
                 [pixel_count |-> np_count_nonzero(stairs_mask),
                  ratio |-> Ratio(np_count_nonzero(stairs_mask), Size(grid)),
                  estimated_size |->
                     estimate_size(Ratio(np_count_nonzero(stairs_mask), Size(grid)))])
  ELSE info

\* lines 35-49
StairsInfo(info, stairs_mask, grid) ==
  IF np_any(stairs_mask)
  THEN PutDetail(AppendObstacle([info EXCEPT !.has_stairs = TRUE], "stairs"),
                 "stairs",
                 [pixel_count |-> np_count_nonzero(stairs_mask),
                  ratio |-> Ratio(np_count_nonzero(stairs_mask), Size(grid)),
                  estimated_size |->
                     estimate_size(Ratio(np_count_nonzero(stairs_mask), Size(grid)))])
  ELSE info

DetectStairs ==
  /\ pc = "stairs"
  /\ \/ KeyError("stairs")
     \/ /\ "stairs" \in DOMAIN class_map
        /\ accessibility_info' =
             StairsInfo(accessibility_info, MaskOf(seg_map, class_map["stairs"]), seg_map)
        /\ pc' = "door"
        /\ UNCHANGED <<others, class_map, threshold_distance, seg_map, indices1, indices2, raised>>

\* Variant: the operands of the ratio's division are exchanged.
DoorInfo_InvertedRatio(info, door_mask, grid) ==
  PutDetail(Put(info, "has_door", TRUE),
            "door",
            [pixel_count |-> np_count_nonzero(door_mask),
             ratio |-> Ratio(Size(grid), np_count_nonzero(door_mask)),
             estimated_width |->
                estimate_door_width(Ratio(Size(grid), np_count_nonzero(door_mask)))])

\* lines 54-63
DoorInfo(info, door_mask, grid) ==
  PutDetail(Put(info, "has_door", TRUE),
            "door",
            [pixel_count |-> np_count_nonzero(door_mask),
             ratio |-> Ratio(np_count_nonzero(door_mask), Size(grid)),
             estimated_width |->
                estimate_door_width(Ratio(np_count_nonzero(door_mask), Size(grid)))])

\* Variant: the entrance branch appends the tag of the stairs block.
StairsToDoor_TagsStairs(info, min_distance, threshold) ==
  LET recorded == PutDetail(info, "stairs_to_door_distance", min_distance)
  IN IF DistLess(min_distance, threshold)
     THEN AppendObstacle([recorded EXCEPT !.entrance_accessible = FALSE], "stairs")
     ELSE recorded

\* Variant: a distance equal to the threshold counts as below it.
StairsToDoor_AtMost(info, min_distance, threshold) ==
  LET recorded == PutDetail(info, "stairs_to_door_distance", min_distance)
  IN IF min_distance # Inf /\ min_distance <= threshold * threshold
     THEN AppendObstacle([recorded EXCEPT !.entrance_accessible = FALSE],
                         "stairs_at_entrance")
     ELSE recorded

\* lines 68-73
StairsToDoor(info, min_distance, threshold) ==
  LET recorded == PutDetail(info, "stairs_to_door_distance", min_distance)
  IN IF DistLess(min_distance, threshold)
     THEN AppendObstacle([recorded EXCEPT !.entrance_accessible = FALSE],
                         "stairs_at_entrance")
     ELSE recorded

\* lines 51-73
DetectDoor ==
  /\ pc = "door"
  /\ \/ KeyError("door")
     \/ /\ "door" \in DOMAIN class_map
        /\ LET stairs_mask == MaskOf(seg_map, class_map["stairs"])
               door_mask == MaskOf(seg_map, class_map["door"])
           IN IF ~np_any(door_mask)
              THEN UNCHANGED <<accessibility_info, indices1, indices2>>
              ELSE IF ~accessibility_info.has_stairs
              THEN /\ accessibility_info' = DoorInfo(accessibility_info, door_mask, seg_map)
                   /\ UNCHANGED <<indices1, indices2>>
              ELSE \E ix \in SamplingOutcomes(stairs_mask, door_mask) :
                     /\ indices1' = ix[1]
                     /\ indices2' = ix[2]
                     /\ accessibility_info' =
                          StairsToDoor(DoorInfo(accessibility_info, door_mask, seg_map),
                                       calculate_object_distance(stairs_mask, door_mask,
                                                                 ix[1], ix[2], seg_map.w),
                                       threshold_distance)
        /\ pc' = "sidewalk"
        /\ UNCHANGED <<others, class_map, threshold_distance, seg_map, raised>>

\* Variant: a distance equal to the threshold counts as above it.
SidewalkToDoor_AtLeast(info, sidewalk_to_door, threshold) ==
  LET recorded == PutDetail(info, "sidewalk_to_door_distance", sidewalk_to_door)
  IN IF sidewalk_to_door = Inf \/ sidewalk_to_door >= threshold * threshold
     THEN AppendObstacle(recorded, "disconnected_sidewalk")
     ELSE recorded

\* lines 83-87
SidewalkToDoor(info, sidewalk_to_door, threshold) ==
  LET recorded == PutDetail(info, "sidewalk_to_door_distance", sidewalk_to_door)
  IN IF DistGreater(sidewalk_to_door, threshold)
     THEN AppendObstacle(recorded, "disconnected_sidewalk")
     ELSE recorded

\* lines 75-87
DetectSidewalk ==
  /\ pc = "sidewalk"
  /\ \/ KeyError("sidewalk")
     \/ /\ "sidewalk" \in DOMAIN class_map
        /\ LET sidewalk_mask == MaskOf(seg_map, class_map["sidewalk"])
               door_mask == MaskOf(seg_map, class_map["door"])
           IN IF ~np_any(sidewalk_mask)
              THEN UNCHANGED <<accessibility_info, indices1, indices2>>
              ELSE IF ~Get(accessibility_info, "has_door", FALSE)
              THEN /\ accessibility_info' = Put(accessibility_info, "has_sidewalk", TRUE)
                   /\ UNCHANGED <<indices1, indices2>>
              ELSE \E ix \in SamplingOutcomes(sidewalk_mask, door_mask) :
                     /\ indices1' = ix[1]
                     /\ indices2' = ix[2]
                     /\ accessibility_info' =
                          SidewalkToDoor(Put(accessibility_info, "has_sidewalk", TRUE),
                                         calculate_object_distance(sidewalk_mask, door_mask,
                                                                   ix[1], ix[2], seg_map.w),
                                         threshold_distance)
        /\ pc' = "building"
        /\ UNCHANGED <<others, class_map, threshold_distance, seg_map, raised>>

\* Variant: the building finding is recorded only beside a door.
BuildingInfo_OnlyWithDoor(info, building_mask, grid) ==
  IF np_any(building_mask) /\ Get(info, "has_door", FALSE)
  THEN PutDetail(Put(info, "has_building", TRUE),
                 "building",
                 [pixel_count |-> np_count_nonzero(building_mask),
                  ratio |-> Ratio(np_count_nonzero(building_mask), Size(grid))])
  ELSE info

\* lines 92-101
BuildingInfo(info, building_mask, grid) ==
  IF np_any(building_mask)
  THEN PutDetail(Put(info, "has_building", TRUE),
                 "building",
                 [pixel_count |-> np_count_nonzero(building_mask),
                  ratio |-> Ratio(np_count_nonzero(building_mask), Size(grid))])
  ELSE info

\* lines 89-101
DetectBuilding ==
  /\ pc = "building"
  /\ \/ KeyError("building")
     \/ /\ "building" \in DOMAIN class_map
        /\ accessibility_info' =
             BuildingInfo(accessibility_info, MaskOf(seg_map, class_map["building"]), seg_map)
        /\ pc' = "railing"
        /\ UNCHANGED <<others, class_map, threshold_distance, seg_map, indices1, indices2, raised>>

\* Variant: a distance equal to the threshold counts as below it.
RailingToStairs_AtMost(info, railing_to_stairs, threshold) ==
  LET recorded == PutDetail(info, "railing_to_stairs_distance", railing_to_stairs)
  IN IF railing_to_stairs # Inf /\ railing_to_stairs <= threshold * threshold
     THEN Put(recorded, "has_stairs_railing", TRUE)
     ELSE recorded

\* lines 111-115
RailingToStairs(info, railing_to_stairs, threshold) ==
  LET recorded == PutDetail(info, "railing_to_stairs_distance", railing_to_stairs)
  IN IF DistLess(railing_to_stairs, threshold)
     THEN Put(recorded, "has_stairs_railing", TRUE)
     ELSE recorded

\* lines 103-115
DetectRailing ==
  /\ pc = "railing"
  /\ \/ KeyError("railing")
     \/ /\ "railing" \in DOMAIN class_map
        /\ LET railing_mask == MaskOf(seg_map, class_map["railing"])
               stairs_mask == MaskOf(seg_map, class_map["stairs"])
           IN IF ~np_any(railing_mask)
              THEN UNCHANGED <<accessibility_info, indices1, indices2>>
              ELSE IF ~accessibility_info.has_stairs
              THEN /\ accessibility_info' = Put(accessibility_info, "has_railing", TRUE)
                   /\ UNCHANGED <<indices1, indices2>>
              ELSE \E ix \in SamplingOutcomes(railing_mask, stairs_mask) :
                     /\ indices1' = ix[1]
                     /\ indices2' = ix[2]
                     /\ accessibility_info' =
                          RailingToStairs(Put(accessibility_info, "has_railing", TRUE),
                                          calculate_object_distance(railing_mask, stairs_mask,
                                                                    ix[1], ix[2], seg_map.w),
                                          threshold_distance)
        /\ pc' = "score"
        /\ UNCHANGED <<others, class_map, threshold_distance, seg_map, raised>>

\* lines 117-121
Score ==
  /\ pc = "score"
  /\ accessibility_info' =
       Put(accessibility_info, "accessibility_score",
           calculate_accessibility_score(accessibility_info))
  /\ pc' = "done"
  /\ UNCHANGED <<others, class_map, threshold_distance, seg_map, indices1, indices2, raised>>

Next ==
  \/ Call
  \/ DetectStairs
  \/ DetectDoor
  \/ DetectSidewalk
  \/ DetectBuilding
  \/ DetectRailing
  \/ Score

Spec == Init /\ [][Next]_vars

\* analyze has returned accessibility_info
Returned == pc = "done"

(* ============================ properties ============================== *)
\* What a result says, and what the analysed grid holds.
Details == accessibility_info.obstacle_details
HasTag(tag) == InList(tag, accessibility_info.obstacles)
Flag(name) == Get(accessibility_info, name, FALSE)
Recorded(key) == key \in DOMAIN Details
HasAllNames == {"stairs", "door", "sidewalk", "building", "railing"} \subseteq DOMAIN class_map
\* the cells of the grid that hold the ID of a tracked name
CellsOf(name) ==
  IF name \in DOMAIN class_map
  THEN {i \in 1..Len(seg_map.lab) : seg_map.lab[i] = class_map[name]}
  ELSE {}
Present(name) == CellsOf(name) # {}
\* the call has ended, with a result or with an exception
Ended == pc \in {"done", "raised"}

C2_EntranceAccessible ==
  Returned =>
    /\ accessibility_info.entrance_accessible = ~HasTag("stairs_at_entrance")
    /\ HasTag("stairs_at_entrance") <=>
         /\ Present("stairs") /\ Present("door")
         /\ Recorded("stairs_to_door_distance")
         /\ Details["stairs_to_door_distance"] # Inf
         /\ Details["stairs_to_door_distance"] < threshold_distance * threshold_distance

C2_Witness ==
  /\ Returned /\ class_map = FullMap
  /\ HasTag("stairs_at_entrance")
  /\ ~accessibility_info.entrance_accessible
  /\ Details["stairs_to_door_distance"] < threshold_distance * threshold_distance

(* C3: for every grid in which a stairs cell and a door cell are adjacent,
   analysed with threshold 5, the result has the tag 'stairs_at_entrance',
   entrance_accessible false and a score reduced by 5 from 10 (by 4 with a
   railing near the stairs), then clamped, for every outcome of the sampling. *)
AdjacentStairsDoor ==
  \E a \in CellsOf("stairs"), b \in CellsOf("door") : SquaredDist(a, b, seg_map.w) <= 1

C3_AdjacentStairsAtEntrance ==
  (Returned /\ threshold_distance = 5 /\ AdjacentStairsDoor) =>
    /\ HasTag("stairs_at_entrance")
    /\ ~accessibility_info.entrance_accessible
    /\ accessibility_info.accessibility_score =
         Max2(1, Min2(10, 10 - (IF Flag("has_stairs_railing") THEN 4 ELSE 5)
                             + SidewalkAdjustment(accessibility_info)
                             + DoorAdjustment(accessibility_info)))

(* C4: the score is clamp(10 + S + W + D, 1, 10): S is -5 (+1 with
   has_stairs_railing) when 'stairs_at_entrance' is present, else -2 when
   stairs are present, else 0; W is -2 when 'disconnected_sidewalk' is
   present; D is -3 for a narrow door, +1 for a wide one, 0 otherwise. *)
C4_S ==
  IF HasTag("stairs_at_entrance")
  THEN (IF Flag("has_stairs_railing") THEN -4 ELSE -5)
  ELSE IF accessibility_info.has_stairs THEN -2 ELSE 0
C4_W == IF HasTag("disconnected_sidewalk") THEN -2 ELSE 0
C4_D ==
  IF ~Flag("has_door") THEN 0
  ELSE IF Details["door"].estimated_width = "narrow" THEN -3
  ELSE IF Details["door"].estimated_width = "wide" THEN 1
  ELSE 0

C4_ScoreFormula ==
  Returned =>
    LET sum == 10 + C4_S + C4_W + C4_D
    IN accessibility_info.accessibility_score =
         (IF sum < 1 THEN 1 ELSE IF sum > 10 THEN 10 ELSE sum)

\* stairs at the entrance with a railing and a narrow door: 10 - 5 + 1 - 3
C4_Witness ==
  /\ Returned /\ class_map = FullMap
  /\ HasTag("stairs_at_entrance") /\ Flag("has_stairs_railing")
  /\ accessibility_info.has_stairs
  /\ Details["door"].estimated_width = "narrow"
  /\ accessibility_info.accessibility_score = 3

(* C5: if the class map has no "stairs" entry, or the grid has no cell with
   the stairs ID, analyze returns a result in which has_stairs is false and
   neither 'stairs' nor 'stairs_at_entrance' is an obstacle. *)
C5_NoStairsNoStairsTags ==
  (Ended /\ ~Present("stairs")) =>
    /\ Returned
    /\ ~accessibility_info.has_stairs
    /\ ~HasTag("stairs") /\ ~HasTag("stairs_at_entrance")

(* C6: analyze on an empty grid, or on a grid with a zero dimension, does not
   return an accessibility result carrying a score (it fails with
   InvalidInput). *)
C6_EmptyGridRejected ==
  ~(Returned /\ Size(seg_map) = 0 /\ "accessibility_score" \in DOMAIN accessibility_info)

(* C7: for every non-empty grid, whatever IDs its cells hold, analyze (built
   with a class map that names the five tracked classes) returns a result
   without raising; a tracked class without a cell is simply absent, which
   suppresses its own obstacle_details entry and the distances that involve
   it and nothing else: every per-class entry is there exactly when its class
   has a cell, with that class's cell count, and every distance is there
   exactly when both classes of its pair have a cell, with a value the
   estimator can return for these two masks. *)
PairKeys ==
  { <<"stairs_to_door_distance", "stairs", "door">>,
    <<"sidewalk_to_door_distance", "sidewalk", "door">>,
    <<"railing_to_stairs_distance", "railing", "stairs">> }
PossibleDistances(a, b) ==
  LET m1 == MaskOf(seg_map, class_map[a])
      m2 == MaskOf(seg_map, class_map[b])
  IN { calculate_object_distance(m1, m2, ix[1], ix[2], seg_map.w) :
         ix \in SamplingOutcomes(m1, m2) }

C7_AbsentClassOnlySuppresses ==
  (HasAllNames /\ Size(seg_map) > 0) =>
    /\ pc # "raised"
    /\ Returned =>
         /\ \A c \in {"stairs", "door", "building"} :
              /\ Recorded(c) <=> Present(c)
              /\ Recorded(c) => Details[c].pixel_count = Cardinality(CellsOf(c))
         /\ \A k \in PairKeys :
              /\ Recorded(k[1]) <=> (Present(k[2]) /\ Present(k[3]))
              /\ Recorded(k[1]) => Details[k[1]] \in PossibleDistances(k[2], k[3])

\* stairs, a railing and a building but no door: only the door's findings are missing
C7_Witness ==
  /\ Returned /\ class_map = FullMap
  /\ Present("stairs") /\ Present("railing") /\ Present("building") /\ ~Present("door")
  /\ Recorded("stairs") /\ Recorded("building") /\ Recorded("railing_to_stairs_distance")
  /\ ~Recorded("door") /\ ~Recorded("stairs_to_door_distance")

(* C8: the estimator returns infinity when either mask has no true cell, and
   no threshold-based finding is set from a pair with an empty mask:
   'stairs_at_entrance', 'disconnected_sidewalk' and has_stairs_railing need
   both masks of their pair non-empty, and no distance of such a pair is
   recorded. *)
AllFalse == [i \in 1..Len(seg_map.lab) |-> FALSE]
MasksOfGrid == {AllFalse} \cup { MaskOf(seg_map, class_map[n]) : n \in DOMAIN class_map }

C8_InfinityNeverTriggers ==
  Returned =>
    /\ \A m1 \in MasksOfGrid, m2 \in MasksOfGrid :
         (~np_any(m1) \/ ~np_any(m2)) =>
            \A ix \in SamplingOutcomes(m1, m2) :
               calculate_object_distance(m1, m2, ix[1], ix[2], seg_map.w) = Inf
    /\ HasTag("stairs_at_entrance") => (Present("stairs") /\ Present("door"))
    /\ HasTag("disconnected_sidewalk") => (Present("sidewalk") /\ Present("door"))
    /\ Flag("has_stairs_railing") => (Present("railing") /\ Present("stairs"))
    /\ \A k \in PairKeys :
         (~Present(k[2]) \/ ~Present(k[3])) => ~Recorded(k[1])
    /\ \A k \in PairKeys : Recorded(k[1]) => Details[k[1]] # Inf

\* a sidewalk and no door: the distance would be infinite, which exceeds every threshold
C8_Witness ==
  /\ Returned /\ class_map = FullMap
  /\ Present("sidewalk") /\ ~Present("door") /\ ~Present("stairs")
  /\ Flag("has_sidewalk")
  /\ ~HasTag("disconnected_sidewalk") /\ ~Recorded("sidewalk_to_door_distance")

(* C9: 'disconnected_sidewalk' is in a result exactly when the grid has
   sidewalk cells and door cells and the recorded sidewalk-to-door distance
   strictly exceeds the threshold; without a door the tag is never added;
   and the stairs-to-door distance is recorded whenever stairs and door are
   present, with or without a sidewalk. *)
C9_DisconnectedSidewalk ==
  Returned =>
    /\ HasTag("disconnected_sidewalk") <=>
         /\ Present("sidewalk") /\ Present("door")
         /\ Recorded("sidewalk_to_door_distance")
         /\ Details["sidewalk_to_door_distance"] > threshold_distance * threshold_distance
    /\ ~Present("door") => ~HasTag("disconnected_sidewalk")
    /\ Recorded("stairs_to_door_distance") <=> (Present("stairs") /\ Present("door"))

C9_Witness ==
  /\ Returned /\ class_map = FullMap
  /\ HasTag("disconnected_sidewalk")
  /\ Details["sidewalk_to_door_distance"] > threshold_distance * threshold_distance
  /\ ~Present("stairs")

(* C10: for every grid with a door cell the door's estimated_width is 'narrow'
   when door_pixels / total_pixels < 0.01, 'standard' when 0.01 <= ratio <
   0.03 and 'wide' when ratio >= 0.03: the boundaries fall in the upper
   bucket. *)
C10_DoorWidthBuckets ==
  (Returned /\ Present("door")) =>
    LET door_pixels == Cardinality(CellsOf("door"))
        total_pixels == Size(seg_map)
    IN /\ Recorded("door")
       /\ Details["door"].pixel_count = door_pixels
       /\ Details["door"].estimated_width =
            (IF 100 * door_pixels < total_pixels THEN "narrow"
             ELSE IF 100 * door_pixels < 3 * total_pixels THEN "standard"
             ELSE "wide")

\* a door of exactly 1% of the cells is standard
C10_Witness ==
  /\ Returned /\ class_map = FullMap
  /\ Present("door")
  /\ 100 * Cardinality(CellsOf("door")) = Size(seg_map)
  /\ Details["door"].estimated_width = "standard"

(* ------------------- get_accessibility_explanation -------------------- *)
\* Scores handed to the explanation mapper range over -MaxScore..MaxScore.
MaxScore == 12

\* the five texts of lines 223-231, each named by its first words
VeryHigh == "very high accessibility"
Good == "good accessibility"
Moderate == "moderate accessibility"
Low == "low accessibility"
VeryLow == "very low accessibility"

\* Variant: every boundary score falls in the lower band.
get_accessibility_explanation_Exclusive(info) ==
  LET score == Get(info, "accessibility_score", 0)
  IN IF score > 9 THEN VeryHigh
     ELSE IF score > 7 THEN Good
     ELSE IF score > 5 THEN Moderate
     ELSE IF score > 3 THEN Low
     ELSE VeryLow

\* lines 210-233
get_accessibility_explanation(info) ==
  LET score == Get(info, "accessibility_score", 0)
  IN IF score >= 9 THEN VeryHigh
     ELSE IF score >= 7 THEN Good
     ELSE IF score >= 5 THEN Moderate
     ELSE IF score >= 3 THEN Low
     ELSE VeryLow

\* the results the mapper is handed: with or without a score, any flags
ExplainArguments ==
  { [has_stairs |-> s, entrance_accessible |-> e] : s, e \in BOOLEAN } \cup
  { [has_stairs |-> s, entrance_accessible |-> e, accessibility_score |-> n] :
      s, e \in BOOLEAN, n \in -MaxScore..MaxScore }

NoResult == "no result"

explainFrame == <<analyzerVars, nearest, lookup, llm, batch, random_state, calls, rest>>

AnalyzerUnused ==
  /\ class_map = FullMap
  /\ threshold_distance = 5
  /\ seg_map = EmptyGrid
  /\ accessibility_info = InitialInfo
  /\ indices1 = NoIndices
  /\ indices2 = NoIndices
  /\ pc = "idle"
  /\ raised = "none"

InitExplain ==
  /\ RestUnused
  /\ AnalyzerUnused
  /\ explain \in [accessibility_info : ExplainArguments, result : {NoResult}]
  /\ nearest = Unused /\ lookup = Unused /\ llm = Unused
  /\ batch = Unused /\ random_state = Unused /\ calls = Unused

\* one call of the mapper on the argument
Explain ==
  /\ explain.result = NoResult
  /\ explain' = [explain EXCEPT
                   !.result = get_accessibility_explanation(explain.accessibility_info)]
  /\ UNCHANGED explainFrame

NextExplain == Explain

SpecExplain == InitExplain /\ [][NextExplain]_vars

\* the rank of a text, from the least accessible to the most
Band(text) ==
  CASE text = VeryLow -> 1 [] text = Low -> 2 [] text = Moderate -> 3
    [] text = Good -> 4 [] text = VeryHigh -> 5

Explained == explain.result # NoResult

(* C11: the explanation mapper returns, for every result, exactly one of the
   five texts: very high for a score of 9 or more, good for 7 or 8, moderate
   for 5 or 6, low for 3 or 4, very low below 3; a result without a score
   counts as score 0 and gets the very-low text; a higher score never gets a
   lower band; the argument is left as it was. *)
C11_ExplanationBands ==
  Explained =>
    LET info == explain.accessibility_info
        score == IF "accessibility_score" \in DOMAIN info
                 THEN info.accessibility_score ELSE 0
        text == explain.result
    IN /\ text \in {VeryHigh, Good, Moderate, Low, VeryLow}
       /\ (text = VeryHigh) <=> (score >= 9)
       /\ (text = Good) <=> (score \in 7..8)
       /\ (text = Moderate) <=> (score \in 5..6)
       /\ (text = Low) <=> (score \in 3..4)
       /\ (text = VeryLow) <=> (score <= 2)
       /\ \A lower \in -MaxScore..score :
            Band(get_accessibility_explanation(
                   Put(info, "accessibility_score", lower)))
              <= Band(text)

\* a result that carries no score is explained as very low
C11_Witness ==
  /\ Explained
  /\ "accessibility_score" \notin DOMAIN explain.accessibility_info
  /\ explain.result = VeryLow

(* ------------------------- shape of the result ------------------------ *)
FlagNames ==
  {"has_stairs", "has_ramp", "entrance_accessible", "has_sidewalk",
   "has_building", "has_railing", "has_stairs_railing", "has_door"}

(* C12: every result analyze returns contains all eight flags has_stairs,
   has_ramp, entrance_accessible, has_sidewalk, has_building, has_railing,
   has_stairs_railing and has_door, each true or false, together with the
   obstacle list, the details mapping and the integer score, whichever
   classes the grid contains. *)
C12_AllFlagsPresent ==
  Returned =>
    /\ \A name \in FlagNames :
         /\ name \in DOMAIN accessibility_info
         /\ accessibility_info[name] \in BOOLEAN
    /\ {"obstacles", "obstacle_details", "accessibility_score"}
         \subseteq DOMAIN accessibility_info
    /\ accessibility_info.accessibility_score \in Int

ObstacleTags == {"stairs", "stairs_at_entrance", "disconnected_sidewalk"}

Obstacles == accessibility_info.obstacles

(* C13: the obstacle list holds no tag twice: 'stairs', 'stairs_at_entrance'
   and 'disconnected_sidewalk' each occur at most once, at every point of
   the call and in the result. *)
C13_ObstaclesUnique ==
  /\ \A i, j \in 1..Len(Obstacles) : Obstacles[i] = Obstacles[j] => i = j
  /\ \A i \in 1..Len(Obstacles) : Obstacles[i] \in ObstacleTags

\* a result that carries all three tags, once each
C13_Witness ==
  /\ Returned
  /\ Len(Obstacles) = 3
  /\ \A tag \in ObstacleTags : HasTag(tag)

(* C14: every finding recorded for stairs, door or building has a pixel
   count between 1 and the number of cells of the grid and a ratio equal to
   pixel count over number of cells, above 0 and at most 1; the pixel counts
   of the recorded classes, one per distinct class ID, sum to at most the
   number of cells. *)
C14_Cells == seg_map.h * seg_map.w

C14_CountOfId(id) ==
  IF \E name \in {"stairs", "door", "building"} :
       Recorded(name) /\ class_map[name] = id
  THEN Cardinality({i \in 1..Len(seg_map.lab) : seg_map.lab[i] = id})
  ELSE 0

C14_PixelCountsAndRatios ==
  Returned =>
    /\ \A name \in {"stairs", "door", "building"} :
         Recorded(name) =>
           LET finding == Details[name]
           IN /\ 1 <= finding.pixel_count
              /\ finding.pixel_count <= C14_Cells
              /\ finding.pixel_count = Cardinality(CellsOf(name))
              /\ finding.ratio.num = finding.pixel_count
              /\ finding.ratio.den = C14_Cells
              /\ 0 < finding.ratio.num
              /\ finding.ratio.num <= finding.ratio.den
    /\ C14_CountOfId(1) + C14_CountOfId(2) + C14_CountOfId(3)
         + C14_CountOfId(4) + C14_CountOfId(5) <= C14_Cells

\* stairs, door and building are all recorded, with different IDs
C14_Witness ==
  /\ Returned /\ class_map = FullMap
  /\ Recorded("stairs") /\ Recorded("door") /\ Recorded("building")
  /\ Details["stairs"].pixel_count + Details["door"].pixel_count
       + Details["building"].pixel_count = 3

(* --------------------- points used by the estimator ------------------- *)
\* the index array ix picks min(n, 100) different points out of n
C20_AllOrHundredDistinct(ix, n) ==
  /\ Len(ix) = (IF n <= 100 THEN n ELSE 100)
  /\ \A i, j \in 1..Len(ix) : ix[i] = ix[j] => i = j
  /\ \A i \in 1..Len(ix) : ix[i] \in 1..n

(* C20: in the distance estimator the points used from each mask are
   min(n, 100) pairwise different cells of that mask, n being the mask's own
   cell count: a mask of at most 100 cells contributes all its cells
   whatever the size of the other mask.  Stated for the stairs-to-door
   distance, right after the door block has computed it. *)
C20_SampleOfOwnSize ==
  (pc = "sidewalk" /\ Recorded("stairs_to_door_distance")) =>
    /\ C20_AllOrHundredDistinct(indices1, Cardinality(CellsOf("stairs")))
    /\ C20_AllOrHundredDistinct(indices2, Cardinality(CellsOf("door")))

(* ----------------------- find_nearest_facility ------------------------ *)
\* A candidate list holds at most MaxFacilities facilities.
MaxFacilities == 3

\* None, in a slot that otherwise holds a dict
None == [None |-> TRUE]
\* None, in a slot that otherwise holds text (the text of an empty XML element)
NoText == "None"

\* float(v) for the values a coordinate field can hold: the number, or the
\* exception float raises
FloatOf == [t \in {"0", "37", "38", "126", "127"} |->
              CASE t = "0" -> 0 [] t = "37" -> 37 [] t = "38" -> 38
                [] t = "126" -> 126 [] t = "127" -> 127]

float(v) ==
  IF v = NoText THEN [raised |-> "TypeError", value |-> 0]
  ELSE IF v \in DOMAIN FloatOf THEN [raised |-> "none", value |-> FloatOf[v]]
  ELSE [raised |-> "ValueError", value |-> 0]

\* calculate_distance, lines 49-60: the haversine distance in metres
\* (6371 km * c, rounded to the metre) between points whose latitudes are
\* 37 or 38 and whose longitudes are 126 or 127 degrees
calculate_distance(lat1, lon1, lat2, lon2) ==
  IF lat1 = lat2 /\ lon1 = lon2 THEN 0
  ELSE IF lat1 = lat2 THEN (IF lat1 = 37 THEN 88804 ELSE 87622)
  ELSE IF lon1 = lon2 THEN 111195
  ELSE 141936

\* Variant: a candidate as near as the nearest so far replaces it.
Closer_OrEqual(distance, min_distance) ==
  min_distance = Inf \/ distance <= min_distance

\* distance < min_distance, line 85; min_distance starts as float('inf')
Closer(distance, min_distance) ==
  min_distance = Inf \/ distance < min_distance

\* the loop of lines 70-90 from the i-th facility on
RECURSIVE NearestFrom(_, _, _, _, _, _)
NearestFrom(latitude, longitude, facilities, i, min_distance, nearest_facility) ==
  IF i > Len(facilities) THEN nearest_facility
  ELSE
    LET facility == facilities[i]
        continue == NearestFrom(latitude, longitude, facilities, i + 1,
                                min_distance, nearest_facility)
        fac_lat == float(Get(facility, "faclLat", "0"))
        fac_lng == float(Get(facility, "faclLng", "0"))
        distance == calculate_distance(latitude, longitude,
                                       fac_lat.value, fac_lng.value)
    IN IF "wfcltId" \notin DOMAIN facility \/ facility["wfcltId"] \in {"", NoText}
       THEN continue
       ELSE IF fac_lat.raised # "none" \/ fac_lng.raised # "none"
       THEN continue
       ELSE IF fac_lat.value = 0 \/ fac_lng.value = 0
       THEN continue
       ELSE IF Closer(distance, min_distance)
       THEN NearestFrom(latitude, longitude, facilities, i + 1, distance, facility)
       ELSE continue

\* lines 62-92
find_nearest_facility(latitude, longitude, facilities) ==
  IF Len(facilities) = 0 THEN None
  ELSE NearestFrom(latitude, longitude, facilities, 1, Inf, None)

\* the fields of the facilities handed to the search: four with an
\* identifier and usable coordinates, the others lacking one of them
FacilityKinds ==
  { [wfcltId |-> "W", faclLat |-> lat, faclLng |-> lng] :
      lat \in {"37", "38"}, lng \in {"126", "127"} } \cup
  { [wfcltId |-> "W", faclLat |-> "0", faclLng |-> "127"],
    [wfcltId |-> "W", faclLat |-> "37", faclLng |-> "0"],
    [wfcltId |-> "W", faclLng |-> "127"],
    [wfcltId |-> "W", faclLat |-> "37", faclLng |-> NoText],
    [wfcltId |-> "W", faclLat |-> "abc", faclLng |-> "127"],
    [faclLat |-> "37", faclLng |-> "127"],
    [wfcltId |-> "", faclLat |-> "37", faclLng |-> "127"] }

\* the facility lists: the i-th facility of a list carries the name i
FacilityLists ==
  UNION { { [i \in 1..n |-> Put(kinds[i], "faclNm", i)] : kinds \in [1..n -> FacilityKinds] } :
          n \in 0..MaxFacilities }

nearestFrame == <<analyzerVars, explain, lookup, llm, batch, random_state, calls, rest>>

InitNearest ==
  /\ RestUnused
  /\ AnalyzerUnused
  /\ nearest \in [latitude : {37, 38}, longitude : {126, 127},
                  facilities : FacilityLists, result : {None}, pc : {"called"}]
  /\ explain = Unused /\ lookup = Unused /\ llm = Unused
  /\ batch = Unused /\ random_state = Unused /\ calls = Unused

\* one call of find_nearest_facility on the arguments
FindNearest ==
  /\ nearest.pc = "called"
  /\ nearest' = [nearest EXCEPT
                   !.result = find_nearest_facility(nearest.latitude, nearest.longitude,
                                                    nearest.facilities),
                   !.pc = "returned"]
  /\ UNCHANGED nearestFrame

NextNearest == FindNearest

SpecNearest == InitNearest /\ [][NextNearest]_vars

\* a candidate the search can return: it has a non-empty identifier and
\* both coordinates are given, numeric and not zero
C15_Eligible(f) ==
  /\ "wfcltId" \in DOMAIN f /\ f["wfcltId"] = "W"
  /\ "faclLat" \in DOMAIN f /\ f["faclLat"] \in {"37", "38"}
  /\ "faclLng" \in DOMAIN f /\ f["faclLng"] \in {"126", "127"}

\* the distance from the reference point to the i-th candidate
C15_Distance(i) ==
  calculate_distance(nearest.latitude, nearest.longitude,
                     FloatOf[nearest.facilities[i]["faclLat"]],
                     FloatOf[nearest.facilities[i]["faclLng"]])

C15_EligibleIndices ==
  { i \in 1..Len(nearest.facilities) : C15_Eligible(nearest.facilities[i]) }

(* C15: find_nearest_facility returns the eligible candidate (non-empty
   identifier, both coordinates given and not zero) whose distance to the
   reference point is least, the first such candidate of the list when
   several are equally near; a candidate with a zero or missing coordinate
   is never returned; the result is None when the list is empty or holds
   no eligible candidate. *)
C15_NearestFacility ==
  nearest.pc = "returned" =>
    IF C15_EligibleIndices = {}
    THEN nearest.result = None
    ELSE \E i \in C15_EligibleIndices :
           /\ nearest.result = nearest.facilities[i]
           /\ \A j \in C15_EligibleIndices :
                /\ C15_Distance(i) <= C15_Distance(j)
                /\ C15_Distance(i) = C15_Distance(j) => i <= j

\* the first candidate sits on the reference point but has latitude zero
\* in its record, the second and third are equally near: the second wins
C15_Witness ==
  /\ nearest.pc = "returned"
  /\ Len(nearest.facilities) = 3
  /\ {"wfcltId", "faclLat"} \subseteq DOMAIN nearest.facilities[1]
  /\ nearest.facilities[1]["wfcltId"] = "W"
  /\ nearest.facilities[1]["faclLat"] = "0"
  /\ C15_EligibleIndices = {2, 3}
  /\ C15_Distance(2) = C15_Distance(3)
  /\ nearest.result = nearest.facilities[2]

(* -------------------------- get_facility_info ------------------------- *)
\* Python values.  A str is kept as the sequence of its pieces (a separator
\* such as "_" or ", " is one piece), a dict as a function on its keys, None
\* as None, any other value as a record tagged with its type.
Str(pieces) == [str |-> pieces]
IntValue(n) == [int |-> n]

List(items) == [list |-> items]

TypeOf(x) ==
  IF x = None THEN "NoneType"
  ELSE IF DOMAIN x = {"str"} THEN "str"
  ELSE IF DOMAIN x = {"int"} THEN "int"
  ELSE IF DOMAIN x = {"list"} THEN "list"
  ELSE "dict"

\* bool(x): None, '', [], {} and 0 are false
Truthy(x) ==
  CASE TypeOf(x) = "NoneType" -> FALSE
    [] TypeOf(x) = "str" -> x.str # <<>>
    [] TypeOf(x) = "int" -> x.int # 0
    [] TypeOf(x) = "list" -> x.list # <<>>
    [] TypeOf(x) = "dict" -> DOMAIN x # {}

\* text.split(sep): the pieces between the separators, at least one part
RECURSIVE Split(_, _)
Split(pieces, sep) ==
  IF \E i \in 1..Len(pieces) : pieces[i] = sep
  THEN LET i == CHOOSE k \in 1..Len(pieces) :
                  pieces[k] = sep /\ \A m \in 1..(k - 1) : pieces[m] # sep
       IN <<SubSeq(pieces, 1, i - 1)>> \o Split(SubSeq(pieces, i + 1, Len(pieces)), sep)
  ELSE <<pieces>>

\* the pages get_facility_info asks for: range(1, 4)
Pages == 3

\* What the remote list service does with one request, as seen through
\* fetch_with_retry: it raises on the last attempt, answers without status
\* 200 every time, answers 200 with a SERVICE ERROR, with a body that does
\* not parse, or with servList records.
ListFailures == {"exception", "non200", "service_error", "malformed"}

RecordLists ==
  { <<>>,
    << [wfcltId |-> "W", faclLat |-> "37", faclLng |-> "127"] >>,
    << [faclLat |-> "37", faclLng |-> "127"],
       [wfcltId |-> "V", faclLat |-> "38", faclLng |-> "126"] >>,
    << [wfcltId |-> "Z", faclLat |-> "0", faclLng |-> "0"] >> }

ListResponses ==
  { [status |-> f, records |-> <<>>] : f \in ListFailures } \cup
  { [status |-> "records", records |-> r] : r \in RecordLists }

\* get_facility_list, lines 94-162, on the response to its request: the
\* records that carry a wfcltId, [] after any failure
get_facility_list(response) ==
  IF response.status \in ListFailures THEN <<>>
  ELSE SelectSeq(response.records,
                 LAMBDA f : "wfcltId" \in DOMAIN f /\ f["wfcltId"] \notin {"", NoText})

\* What the remote detail service does with one request: a failure, a body
\* without servList, or a servList whose children become the record; the
\* text of an empty child element is None.
DetailFailures == {"exception", "non200", "service_error", "no_item"}

EvalText == Str(<<"entrance", "ramp", ", ", "parking">>)

DetailRecords ==
  { EmptyDict,
    [wfcltId |-> "W"],
    [wfcltId |-> "W", evalInfo |-> EvalText],
    [wfcltId |-> "W", evalInfo |-> None] }

DetailResponses ==
  { [status |-> f, record |-> EmptyDict] : f \in DetailFailures } \cup
  { [status |-> "record", record |-> r] : r \in DetailRecords }

\* get_facility_detail, lines 164-204
get_facility_detail(wfclt_id, response) ==
  IF wfclt_id \in {"", NoText} THEN None
  ELSE IF response.status \in DetailFailures THEN None
  ELSE response.record

\* the messages of the unavailable results, each named by its content
MsgNoLocation == "no location given"
MsgBadAddress == "bad address format"
MsgBadCoordinates == "bad latitude/longitude"
MsgNoValidLocation == "no valid location"
MsgUnsupported == "unsupported location format"
MsgNotFound == "facility not found"

Unavailable(message) == [available |-> FALSE, message |-> message]

\* the loop over the first pages (lines 223-228, 259-264, 287-292): it stops
\* at the first page that yields no facility
RECURSIVE CollectPages(_, _)
CollectPages(responses, page) ==
  IF page > Pages THEN <<>>
  ELSE LET facilities == get_facility_list(responses[page])
       IN IF facilities = <<>> THEN <<>>
          ELSE facilities \o CollectPages(responses, page + 1)

\* 'keyword' in feature
Contains(feature, keyword) == \E i \in 1..Len(feature) : feature[i] = keyword

\* lines 312-341, once facility_info and facility_detail are known.  Every
\* use of the feature list evaluates facility_detail.get('evalInfo', '')
\* .split(', ') when the detail record has the key evalInfo; on the value
\* None that is an AttributeError, which nothing catches.
ComposeResult(facility_info, facility_detail) ==
  LET has_eval == Truthy(facility_detail) /\ "evalInfo" \in DOMAIN facility_detail
      features == IF has_eval THEN Split(facility_detail["evalInfo"].str, ", ") ELSE <<>>
      AnyFeature(keyword) == \E i \in 1..Len(features) : Contains(features[i], keyword)
      FeaturesWith(keyword) == SelectSeq(features, LAMBDA feature : Contains(feature, keyword))
      result ==
        [available |-> TRUE,
         basic_info |-> facility_info,
         facility_features |-> [evalInfo |-> features],
         accessibility_details |->
           [entrance |-> [accessible |-> AnyFeature("entrance"), features |-> FeaturesWith("entrance")],
            parking |-> [available |-> AnyFeature("parking"), features |-> FeaturesWith("parking")],
            restroom |-> [available |-> AnyFeature("restroom"), features |-> FeaturesWith("restroom")],
            elevator |-> [available |-> AnyFeature("elevator")]]]
  IN IF has_eval /\ facility_detail["evalInfo"] = None
     THEN [raised |-> "AttributeError", result |-> None]
     ELSE IF ~Truthy(facility_info) /\ ~Truthy(facility_detail)
     THEN [raised |-> "none",
           result |-> Put(Put(result, "available", FALSE), "message", MsgNotFound)]
     ELSE [raised |-> "none", result |-> result]

Return(result) == [raised |-> "none", result |-> result]

\* the first facility of the collected pages and its detail: lines 230-235, 294-299
FirstFacility(responses, detail_response) ==
  LET all_facilities == CollectPages(responses, 1)
  IN IF all_facilities # <<>>
     THEN ComposeResult(all_facilities[1],
                        get_facility_detail(Get(all_facilities[1], "wfcltId", NoText),
                                            detail_response))
     ELSE ComposeResult(None, None)

\* lines 206-341, given the responses of the list service to the page
\* requests and of the detail service: the result, or the exception raised
get_facility_info(location_info, responses, detail_response) ==
  IF ~Truthy(location_info) THEN Return(Unavailable(MsgNoLocation))
  ELSE IF TypeOf(location_info) = "str"
  THEN IF Len(Split(location_info.str, "_")) >= 3
       THEN FirstFacility(responses, detail_response)
       ELSE Return(Unavailable(MsgBadAddress))
  ELSE IF TypeOf(location_info) = "dict"
  THEN IF "wfcltId" \in DOMAIN location_info
       THEN LET wfclt_id == location_info["wfcltId"]
                facilities == get_facility_list(responses[1])
                matching == SelectSeq(facilities, LAMBDA f : f["wfcltId"] = wfclt_id)
            IN ComposeResult(IF matching = <<>> THEN None ELSE matching[1],
                             get_facility_detail(wfclt_id, detail_response))
       ELSE IF /\ {"latitude", "longitude"} \subseteq DOMAIN location_info
               /\ location_info["latitude"] # NoText
               /\ location_info["longitude"] # NoText
       THEN LET latitude == float(location_info["latitude"])
                longitude == float(location_info["longitude"])
                facility_info ==
                  find_nearest_facility(latitude.value, longitude.value,
                                        CollectPages(responses, 1))
            IN IF latitude.raised # "none" \/ longitude.raised # "none"
               THEN Return(Unavailable(MsgBadCoordinates))
               ELSE IF Truthy(facility_info)
               THEN ComposeResult(facility_info,
                                  get_facility_detail(Get(facility_info, "wfcltId", NoText),
                                                      detail_response))
               ELSE ComposeResult(facility_info, None)
       ELSE IF {"siDoNm", "cggNm"} \subseteq DOMAIN location_info
       THEN FirstFacility(responses, detail_response)
       ELSE Return(Unavailable(MsgNoValidLocation))
  ELSE Return(Unavailable(MsgUnsupported))

\* the location descriptors: nothing, text, a dict naming a facility, a dict
\* with coordinates, a dict with region names, other dicts, other values
Locations ==
  { None, IntValue(0), IntValue(42), EmptyDict,
    Str(<<>>), Str(<<"seoul">>), Str(<<"seoul", "_", "mapo">>),
    Str(<<"seoul", "_", "mapo", "_", "road">>),
    Str(<<"seoul", "_", "mapo", "_", "road", "_", "12">>),
    [wfcltId |-> "W"], [wfcltId |-> "Q"],
    [latitude |-> "37", longitude |-> "127", siDoNm |-> NoText, cggNm |-> NoText],
    [latitude |-> "38", longitude |-> "126"],
    [latitude |-> "abc", longitude |-> "127"],
    [latitude |-> "37", longitude |-> NoText, siDoNm |-> NoText, cggNm |-> NoText],
    [latitude |-> NoText, longitude |-> NoText, siDoNm |-> "seoul", cggNm |-> "mapo",
     roadNm |-> "road"],
    [siDoNm |-> "seoul", cggNm |-> "mapo"],
    [siDoNm |-> "seoul"],
    [building_name |-> "hall"] }

lookupFrame == <<analyzerVars, explain, nearest, llm, batch, random_state, calls, rest>>

InitLookup ==
  /\ RestUnused
  /\ AnalyzerUnused
  /\ lookup \in [location_info : Locations,
                 responses : [1..Pages -> ListResponses],
                 detail_response : DetailResponses,
                 result : {None}, raised : {"none"}, pc : {"called"}]
  /\ explain = Unused /\ nearest = Unused /\ llm = Unused
  /\ batch = Unused /\ random_state = Unused /\ calls = Unused

\* one call of get_facility_info: it returns a result or raises
GetFacilityInfo ==
  /\ lookup.pc = "called"
  /\ LET outcome == get_facility_info(lookup.location_info, lookup.responses,
                                      lookup.detail_response)
     IN lookup' = [lookup EXCEPT
                     !.result = outcome.result,
                     !.raised = outcome.raised,
                     !.pc = IF outcome.raised = "none" THEN "returned" ELSE "raised"]
  /\ UNCHANGED lookupFrame

NextLookup == GetFacilityInfo

SpecLookup == InitLookup /\ [][NextLookup]_vars

(* C16: for every location descriptor and every outcome of the remote
   calls (success, non-200, exception, record fields with empty text)
   get_facility_info does not raise, and what it returns is either facility
   metadata with available = true or an unavailable result with
   available = false and a non-empty message. *)
C16_AlwaysAvailableOrSentinel ==
  /\ lookup.pc # "raised"
  /\ lookup.pc = "returned" =>
       \/ lookup.result.available = TRUE
       \/ /\ lookup.result.available = FALSE
          /\ "message" \in DOMAIN lookup.result
          /\ lookup.result.message # ""

(* ------------------------- _parse_llm_response ------------------------ *)
\* A response text has at most MaxText pieces.
MaxText == 4

\* The pieces of a response text: the two braces, a blank, "k" for the text
\* of one JSON member ("k": 1), and "x" for any other text.
TextPieces == {"{", "}", " ", "k", "x"}

ResponseTexts == UNION { [1..n -> TextPieces] : n \in 0..MaxText }

\* str.find and str.rfind: the 0-based position of the first and of the last
\* occurrence, -1 when there is none
find(text, piece) ==
  IF \E i \in 1..Len(text) : text[i] = piece
  THEN (CHOOSE i \in 1..Len(text) :
          text[i] = piece /\ \A j \in 1..(i - 1) : text[j] # piece) - 1
  ELSE -1

\* Variant: the position of the first occurrence instead of the last.
rfind_First(text, piece) == find(text, piece)

rfind(text, piece) ==
  IF \E i \in 1..Len(text) : text[i] = piece
  THEN (CHOOSE i \in 1..Len(text) :
          text[i] = piece /\ \A j \in (i + 1)..Len(text) : text[j] # piece) - 1
  ELSE -1

\* text[start:end] for 0 <= start < end <= len(text)
Slice(text, start, end) == SubSeq(text, start + 1, end)

\* str.strip(): the text without its leading and trailing blanks
RECURSIVE strip(_)
strip(text) ==
  IF text = <<>> THEN text
  ELSE IF Head(text) = " " THEN strip(Tail(text))
  ELSE IF text[Len(text)] = " " THEN strip(SubSeq(text, 1, Len(text) - 1))
  ELSE text

\* json.loads on a text that starts with "{": a JSON object is an opening
\* brace, blanks, at most one member, blanks, a closing brace; any other text
\* raises JSONDecodeError
json_loads(text) ==
  LET inner == strip(SubSeq(text, 2, Len(text) - 1))
  IN IF Len(text) >= 2 /\ text[1] = "{" /\ text[Len(text)] = "}" /\ inner = <<>>
     THEN [raised |-> "none", value |-> EmptyDict]
     ELSE IF Len(text) >= 2 /\ text[1] = "{" /\ text[Len(text)] = "}" /\ inner = <<"k">>
     THEN [raised |-> "none", value |-> [k |-> 1]]
     ELSE [raised |-> "JSONDecodeError", value |-> None]

\* lines 305-328
parse_llm_response(response_text) ==
  LET start_idx == find(response_text, "{")
      end_idx == rfind(response_text, "}") + 1
      loaded == json_loads(Slice(response_text, start_idx, end_idx))
  IN IF start_idx >= 0 /\ end_idx > start_idx
     THEN IF loaded.raised = "none"
          THEN loaded.value
          ELSE [text_response |-> Str(strip(response_text))]
     ELSE [text_response |-> Str(strip(response_text))]

llmFrame == <<analyzerVars, explain, nearest, lookup, batch, random_state, calls, rest>>

InitParse ==
  /\ RestUnused
  /\ AnalyzerUnused
  /\ llm \in [response_text : ResponseTexts, result : {None}, pc : {"called"}]
  /\ explain = Unused /\ nearest = Unused /\ lookup = Unused
  /\ batch = Unused /\ random_state = Unused /\ calls = Unused

\* one call of _parse_llm_response on the text
ParseResponse ==
  /\ llm.pc = "called"
  /\ llm' = [llm EXCEPT !.result = parse_llm_response(llm.response_text),
                        !.pc = "returned"]
  /\ UNCHANGED llmFrame

NextParse == ParseResponse

SpecParse == InitParse /\ [][NextParse]_vars

\* the positions (1-based) of a piece in the response text
C17_Positions(piece) ==
  { i \in 1..Len(llm.response_text) : llm.response_text[i] = piece }

C17_Min(S) == CHOOSE i \in S : \A j \in S : i <= j
C17_Max(S) == CHOOSE i \in S : \A j \in S : i >= j

\* text is the response text without the blanks at its two ends
C17_IsStripped(text) ==
  /\ \E a, b \in 0..Len(llm.response_text) :
       /\ a + Len(text) + b = Len(llm.response_text)
       /\ \A i \in 1..Len(llm.response_text) :
            IF i <= a \/ i > a + Len(text)
            THEN llm.response_text[i] = " "
            ELSE llm.response_text[i] = text[i - a]
  /\ text # <<>> => (text[1] # " " /\ text[Len(text)] # " ")

\* the result is the raw text, stripped, under text_response
C17_IsFallback ==
  /\ DOMAIN llm.result = {"text_response"}
  /\ C17_IsStripped(llm.result["text_response"].str)

(* C17: the response parser takes the part of the text from its first '{'
   to its last '}' and returns that part parsed as JSON; when there is no
   such part (no '{', no '}', or the last '}' before the first '{') or the
   part is not valid JSON, it returns the stripped raw text under
   text_response; it always returns. *)
C17_ParseOrFallback ==
  llm.pc = "returned" =>
    IF C17_Positions("{") # {} /\ C17_Positions("}") # {}
       /\ C17_Min(C17_Positions("{")) < C17_Max(C17_Positions("}"))
    THEN LET part == SubSeq(llm.response_text, C17_Min(C17_Positions("{")),
                            C17_Max(C17_Positions("}")))
         IN IF json_loads(part).raised = "none"
            THEN llm.result = json_loads(part).value
            ELSE C17_IsFallback
    ELSE C17_IsFallback

\* other text before the object: the part from "{" on is parsed
C17_Witness ==
  /\ llm.pc = "returned"
  /\ llm.response_text = <<"x", "{", "k", "}">>
  /\ llm.result = [k |-> 1]

(* -------------------- process_image, process_directory ---------------- *)
\* A directory holds at most MaxImages image files.
MaxImages == 2

\* What goes wrong while one image is processed: nothing, or the one step
\* that fails.
\*   missing, invalid       the file does not exist / validate_image is false
\*   output_paths           os.makedirs raises in generate_output_paths
\*   segmentation, overlay, analysis, facility
\*                          the step raises inside the try block
\*   llm                    analyze_image gives up and returns {"error": ...}
\*   report                 save_report cannot write; it logs and returns None
\*   api                    the API client gives up and returns {"error": True, ...}
Failures ==
  {"none", "missing", "invalid", "output_paths", "segmentation", "overlay",
   "analysis", "facility", "llm", "report", "api"}

RaisedInTry == {"segmentation", "overlay", "analysis", "facility"}

\* the result dict of lines 80-88 and 106 for the image at image_path
Composed(image_path, failure, send_to_api) ==
  LET result ==
        [image_path |-> image_path,
         overlay_path |-> "overlay",
         location_info |-> "location",
         accessibility_info |-> "accessibility",
         facility_info |-> "facility",
         llm_analysis |-> IF failure = "llm" THEN [error |-> "llm"]
                          ELSE [text_response |-> "analysis"],
         timestamp |-> "now"]
  IN IF send_to_api
     THEN Put(result, "api_response",
              IF failure = "api" THEN [error |-> TRUE] ELSE [status |-> "success"])
     ELSE result

\* process_image, lines 26-130: the result it returns, or the exception
\* that leaves it
process_image(image_path, failure, send_to_api) ==
  IF failure = "missing" THEN [raised |-> "none", result |-> [error |-> "Image not found"]]
  ELSE IF failure = "invalid" THEN [raised |-> "none", result |-> [error |-> "Invalid image file"]]
  ELSE IF failure = "output_paths" THEN [raised |-> "OSError", result |-> None]
  ELSE IF failure \in RaisedInTry
  THEN [raised |-> "none",
        result |-> [error |-> "Processing error", details |-> failure,
                    image_path |-> image_path, timestamp |-> "now"]]
  ELSE [raised |-> "none", result |-> Composed(image_path, failure, send_to_api)]

batchFrame == <<analyzerVars, explain, nearest, lookup, llm, random_state, calls, rest>>

\* process_directory has listed the image files: lines 132-162.  The i-th
\* file has the path i; failures[i] is what goes wrong with it.
InitBatch ==
  /\ RestUnused
  /\ AnalyzerUnused
  /\ \E n \in 0..MaxImages :
       batch \in [failures : [1..n -> Failures], send_to_api : BOOLEAN,
                  image_count : {0}, error_count : {0}, results : {<<>>},
                  raised : {"none"}, pc : {"loop"}]
  /\ explain = Unused /\ nearest = Unused /\ lookup = Unused
  /\ llm = Unused /\ random_state = Unused /\ calls = Unused

\* one round of the loop of lines 164-172
ProcessNext ==
  /\ batch.pc = "loop"
  /\ batch.image_count < Len(batch.failures)
  /\ LET file_path == batch.image_count + 1
         outcome == process_image(file_path, batch.failures[file_path], batch.send_to_api)
     IN IF outcome.raised # "none"
        THEN batch' = [batch EXCEPT !.image_count = file_path,
                                    !.raised = outcome.raised,
                                    !.pc = "raised"]
        ELSE batch' = [batch EXCEPT
                         !.image_count = file_path,
                         !.results = Append(@, outcome.result),
                         !.error_count =
                            IF "error" \in DOMAIN outcome.result THEN @ + 1 ELSE @]
  /\ UNCHANGED batchFrame

\* the loop is over: lines 155-157, 174-175
ReturnResults ==
  /\ batch.pc = "loop"
  /\ batch.image_count = Len(batch.failures)
  /\ batch' = [batch EXCEPT !.pc = "returned"]
  /\ UNCHANGED batchFrame

NextBatch == ProcessNext \/ ReturnResults

SpecBatch == InitBatch /\ [][NextBatch]_vars

\* the failures that the claim counts as errors of the image: the file is
\* missing or invalid, or a step raises
C18_Fails(failure) ==
  failure \in {"missing", "invalid", "output_paths"} \cup RaisedInTry

(* C18: when a directory of n images is processed, a failure on one image
   does not abort the batch: process_directory never raises; it returns
   exactly n results, the i-th for the i-th image; an image whose file is
   missing or invalid or for which a step raises has a result with the
   'error' key; the error count is the number of results with that key. *)
C18_BatchSurvivesFailures ==
  /\ batch.pc # "raised"
  /\ batch.pc = "returned" =>
       /\ Len(batch.results) = Len(batch.failures)
       /\ \A i \in 1..Len(batch.results) :
            /\ C18_Fails(batch.failures[i]) <=> "error" \in DOMAIN batch.results[i]
            /\ "image_path" \in DOMAIN batch.results[i] =>
                 batch.results[i]["image_path"] = i
       /\ batch.error_count =
            Cardinality({ i \in 1..Len(batch.results) :
                            "error" \in DOMAIN batch.results[i] })

(* ------------------ analyze calls running side by side ---------------- *)
\* np.random is one generator for the whole process; np.random.choice reads
\* and advances its state.  The generator is kept as a counter modulo
\* RngPeriod: the i-th index of a draw from state s out of n is
\* (s + i - 1) % n, and k draws advance the state by k.
RngPeriod == 4

Threads == {1, 2}

\* np.random.choice(n, k) from the generator state: the index array
\* (1-based) and the state afterwards
random_choice(n, k, state) ==
  [ix |-> [i \in 1..k |-> ((state + i - 1) % n) + 1],
   state |-> (state + k) % RngPeriod]

\* np.arange(n): no draw
arange(n, state) == [ix |-> [i \in 1..n |-> i], state |-> state]

\* _calculate_object_distance, lines 123-149, drawing from the process-wide
\* generator: the distance and the generator state afterwards
SampledDistance(mask1, mask2, w, state) ==
  LET n1 == Len(np_where(mask1))
      n2 == Len(np_where(mask2))
      k == max_samples(n1, n2)
      first == IF n1 > k THEN random_choice(n1, k, state) ELSE arange(n1, state)
      second == IF n2 > k THEN random_choice(n2, k, first.state)
                ELSE arange(n2, first.state)
  IN IF n1 = 0 \/ n2 = 0
     THEN [distance |-> Inf, state |-> state]
     ELSE [distance |-> calculate_object_distance(mask1, mask2, first.ix, second.ix, w),
           state |-> second.state]

\* One block of analyze (the block named by at) on a call's own grid and
\* result, with the class map and threshold of the analyzer: the result and
\* the generator state after the block.
Block(at, info, grid, state) ==
  LET Mask(name) == MaskOf(grid, class_map[name])
      Same(new_info) == [info |-> new_info, state |-> state]
  IN CASE at = "stairs" -> Same(StairsInfo(info, Mask("stairs"), grid))
       [] at = "door" ->
            IF ~np_any(Mask("door")) THEN Same(info)
            ELSE IF ~info.has_stairs THEN Same(DoorInfo(info, Mask("door"), grid))
            ELSE LET d == SampledDistance(Mask("stairs"), Mask("door"), grid.w, state)
                 IN [info |-> StairsToDoor(DoorInfo(info, Mask("door"), grid),
                                           d.distance, threshold_distance),
                     state |-> d.state]
       [] at = "sidewalk" ->
            IF ~np_any(Mask("sidewalk")) THEN Same(info)
            ELSE IF ~Get(info, "has_door", FALSE)
            THEN Same(Put(info, "has_sidewalk", TRUE))
            ELSE LET d == SampledDistance(Mask("sidewalk"), Mask("door"), grid.w, state)
                 IN [info |-> SidewalkToDoor(Put(info, "has_sidewalk", TRUE),
                                             d.distance, threshold_distance),
                     state |-> d.state]
       [] at = "building" -> Same(BuildingInfo(info, Mask("building"), grid))
       [] at = "railing" ->
            IF ~np_any(Mask("railing")) THEN Same(info)
            ELSE IF ~info.has_stairs THEN Same(Put(info, "has_railing", TRUE))
            ELSE LET d == SampledDistance(Mask("railing"), Mask("stairs"), grid.w, state)
                 IN [info |-> RailingToStairs(Put(info, "has_railing", TRUE),
                                              d.distance, threshold_distance),
                     state |-> d.state]
       [] at = "score" ->
            Same(Put(info, "accessibility_score", calculate_accessibility_score(info)))

\* the block after a block
After(at) ==
  CASE at = "stairs" -> "door" [] at = "door" -> "sidewalk"
    [] at = "sidewalk" -> "building" [] at = "building" -> "railing"
    [] at = "railing" -> "score" [] at = "score" -> "done"

\* the grids of the side-by-side calls: 10 x 10, the first cells as given
ConcurrentGrids ==
  { Grid(<<10, 10>>, l) :
      l \in { <<1, 0, 0, 0, 1, 2>>, <<3, 0, 0, 0, 3, 2>>, <<1, 1, 2, 5>>, <<4, 2>> } }

concurrentFrame == <<analyzerVars, explain, nearest, lookup, llm, batch, rest>>

\* Two threads have each called analyze on a grid of their own; seeded is
\* the state the generator had when they did.
InitConcurrent ==
  /\ RestUnused
  /\ AnalyzerUnused
  /\ random_state \in 0..(RngPeriod - 1)
  /\ \E g1, g2 \in ConcurrentGrids :
       /\ g1 # g2
       /\ calls = [t \in Threads |->
                     [seg_map |-> IF t = 1 THEN g1 ELSE g2,
                      accessibility_info |-> InitialInfo,
                      at |-> "stairs",
                      seeded |-> random_state]]
  /\ explain = Unused /\ nearest = Unused /\ lookup = Unused
  /\ llm = Unused /\ batch = Unused

\* thread t runs the next block of its call
ThreadStep(t) ==
  /\ calls[t].at # "done"
  /\ LET b == Block(calls[t].at, calls[t].accessibility_info, calls[t].seg_map,
                    random_state)
     IN /\ calls' = [calls EXCEPT ![t].accessibility_info = b.info,
                                  ![t].at = After(calls[t].at)]
        /\ random_state' = b.state
  /\ UNCHANGED concurrentFrame

NextConcurrent == \E t \in Threads : ThreadStep(t)

SpecConcurrent == InitConcurrent /\ [][NextConcurrent]_vars

\* analyze run alone on a grid from a generator state: the blocks from at on
RECURSIVE analyze_alone(_, _, _, _)
analyze_alone(at, info, grid, state) ==
  IF at = "done" THEN info
  ELSE LET b == Block(at, info, grid, state)
       IN analyze_alone(After(at), b.info, grid, b.state)

(* C19: two analyze calls that run side by side on different grids have no
   state in common, the generator behind the random sampling included: in
   every interleaving each call returns the result it returns when it runs
   alone from the state the process was in when the calls began. *)
C19_CallsIndependent ==
  \A t \in Threads :
    calls[t].at = "done" =>
      calls[t].accessibility_info =
        analyze_alone("stairs", InitialInfo, calls[t].seg_map, calls[t].seeded)

(* ------------------------- railing beside stairs ---------------------- *)
\* the recorded railing-to-stairs distance is strictly below the threshold
C21_RailingNear ==
  /\ Recorded("railing_to_stairs_distance")
  /\ Details["railing_to_stairs_distance"] # Inf
  /\ Details["railing_to_stairs_distance"] < threshold_distance * threshold_distance

(* C21: has_stairs_railing is true in a result exactly when the grid has
   railing cells and stairs cells and the computed railing-to-stairs
   distance is strictly below the threshold; a result without the flag gets
   no +1 in its score. *)
C21_StairsRailing ==
  Returned =>
    /\ Flag("has_stairs_railing") <=>
         (Present("railing") /\ Present("stairs") /\ C21_RailingNear)
    /\ ~Flag("has_stairs_railing") =>
         LET sum == 10 + (IF HasTag("stairs_at_entrance") THEN -5
                          ELSE IF accessibility_info.has_stairs THEN -2 ELSE 0)
                       + C4_W + C4_D
         IN accessibility_info.accessibility_score =
              (IF sum < 1 THEN 1 ELSE IF sum > 10 THEN 10 ELSE sum)

\* a railing exactly at the threshold distance from the stairs, which stand
\* at the entrance: no flag, no bonus
C21_Witness ==
  /\ Returned /\ class_map = FullMap
  /\ Present("railing") /\ Present("stairs")
  /\ Recorded("railing_to_stairs_distance")
  /\ Details["railing_to_stairs_distance"] = threshold_distance * threshold_distance
  /\ HasTag("stairs_at_entrance")
  /\ ~Flag("has_stairs_railing")
  /\ accessibility_info.accessibility_score = 5

(* ------------------- estimate against exact distance ------------------ *)
\* the squared Euclidean distance between cells i and j of the grid
C27_Squared(i, j) ==
  LET dy == ((i - 1) \div seg_map.w) - ((j - 1) \div seg_map.w)
      dx == ((i - 1) % seg_map.w) - ((j - 1) % seg_map.w)
  IN dy * dy + dx * dx

\* the exact minimum (squared) distance between the cells of two classes
\* that both occur in the grid
C27_Exact(a, b) ==
  LET ds == { C27_Squared(i, j) : i \in CellsOf(a), j \in CellsOf(b) }
  IN CHOOSE d \in ds : \A e \in ds : d <= e

\* the least (squared) distance over the pairs picked by the index arrays
\* of the last sampling step
C27_SampledMin(a, b) ==
  LET c1 == np_where(MaskOf(seg_map, class_map[a]))
      c2 == np_where(MaskOf(seg_map, class_map[b]))
      ds == { C27_Squared(c1[indices1[i]], c2[indices2[j]]) :
                i \in 1..Len(indices1), j \in 1..Len(indices2) }
  IN CHOOSE d \in ds : \A e \in ds : d <= e

\* the block that records the distance under key has just run
C27_JustRecorded(key, after) == pc = after /\ Recorded(key)

(* C27: for two non-empty masks and every outcome of the sampling, the
   distance the estimator returns is the least distance over the sampled
   pairs and is never below the exact minimum distance of the masks; so
   'stairs_at_entrance' and has_stairs_railing are set only when the exact
   distance is below the threshold. *)
C27_NeverBelowExact ==
  /\ C27_JustRecorded("stairs_to_door_distance", "sidewalk") =>
       Details["stairs_to_door_distance"] = C27_SampledMin("stairs", "door")
  /\ C27_JustRecorded("sidewalk_to_door_distance", "building") =>
       Details["sidewalk_to_door_distance"] = C27_SampledMin("sidewalk", "door")
  /\ C27_JustRecorded("railing_to_stairs_distance", "score") =>
       Details["railing_to_stairs_distance"] = C27_SampledMin("railing", "stairs")
  /\ \A k \in PairKeys :
       Recorded(k[1]) =>
         Details[k[1]] >= C27_Exact(k[2], k[3])
  /\ HasTag("stairs_at_entrance") =>
       C27_Exact("stairs", "door") < threshold_distance * threshold_distance
  /\ Flag("has_stairs_railing") =>
       C27_Exact("railing", "stairs") < threshold_distance * threshold_distance

\* 'disconnected_sidewalk' is set although a sidewalk cell lies within the
\* threshold of the door: the sample held only a farther sidewalk cell
C27_Witness ==
  /\ Returned /\ class_map = FullMap
  /\ HasTag("disconnected_sidewalk")
  /\ C27_Exact("sidewalk", "door") <= threshold_distance * threshold_distance
  /\ Details["sidewalk_to_door_distance"] > C27_Exact("sidewalk", "door")

(* ------------- analyze with a threshold of at most one cell ------------ *)
\* Values of ACCESSIBILITY_THRESHOLD_DISTANCE not above the side of a cell.
TightThresholds == {0, 1}

InitTight ==
  /\ RestUnused
  /\ class_map \in ClassMaps
  /\ threshold_distance \in TightThresholds
  /\ seg_map = EmptyGrid
  /\ accessibility_info = InitialInfo
  /\ indices1 = NoIndices
  /\ indices2 = NoIndices
  /\ pc = "idle"
  /\ raised = "none"
  /\ explain = Unused /\ nearest = Unused /\ lookup = Unused /\ llm = Unused
  /\ batch = Unused /\ random_state = Unused /\ calls = Unused

SpecTight == InitTight /\ [][Next]_vars

\* the IDs of the class map are pairwise distinct
C28_DistinctIds ==
  \A a \in DOMAIN class_map, b \in DOMAIN class_map :
     a # b => class_map[a] # class_map[b]

(* C28: when the IDs of the class map are pairwise distinct, every pairwise
   distance analyze records is at least one cell (squared: at least 1), never
   0, because no cell belongs to two masks; and an analyzer built with a
   threshold of at most 1 then never sets 'stairs_at_entrance' nor
   has_stairs_railing. *)
C28_NeverWithinOneCell ==
  C28_DistinctIds =>
    /\ \A k \in PairKeys : Recorded(k[1]) => Details[k[1]] >= 1
    /\ threshold_distance <= 1 =>
         /\ ~HasTag("stairs_at_entrance")
         /\ ~Flag("has_stairs_railing")

\* threshold 1, a stairs cell next to the door and a railing cell next to the
\* stairs: both distances are 1, which is not below the threshold
C28_Witness ==
  /\ Returned /\ class_map = FullMap /\ threshold_distance = 1
  /\ Recorded("stairs_to_door_distance") /\ Recorded("railing_to_stairs_distance")
  /\ Details["stairs_to_door_distance"] = 1
  /\ Details["railing_to_stairs_distance"] = 1
  /\ ~HasTag("stairs_at_entrance") /\ ~Flag("has_stairs_railing")
  /\ accessibility_info.entrance_accessible

\* the flags of the two classes of each distance key
C29_PairFlags ==
  { <<"stairs_to_door_distance", "has_stairs", "has_door">>,
    <<"sidewalk_to_door_distance", "has_sidewalk", "has_door">>,
    <<"railing_to_stairs_distance", "has_railing", "has_stairs">> }

(* C29: every result of analyze is consistent with itself: the tag 'stairs'
   is there exactly when has_stairs is true; 'stairs_at_entrance' comes with
   has_stairs, has_door and a recorded finite stairs-to-door distance below
   the threshold; 'disconnected_sidewalk' comes with has_sidewalk, has_door
   and a recorded sidewalk-to-door distance above the threshold;
   has_stairs_railing comes with has_railing and has_stairs; each distance
   key is recorded exactly when the flags of both classes of its pair are
   true; has_ramp is false. *)
C29_ResultConsistent ==
  Returned =>
    /\ HasTag("stairs") <=> accessibility_info.has_stairs
    /\ HasTag("stairs_at_entrance") =>
         /\ accessibility_info.has_stairs /\ Flag("has_door")
         /\ Recorded("stairs_to_door_distance")
         /\ Details["stairs_to_door_distance"] # Inf
         /\ Details["stairs_to_door_distance"] < threshold_distance * threshold_distance
    /\ HasTag("disconnected_sidewalk") =>
         /\ Flag("has_sidewalk") /\ Flag("has_door")
         /\ Recorded("sidewalk_to_door_distance")
         /\ \/ Details["sidewalk_to_door_distance"] = Inf
            \/ Details["sidewalk_to_door_distance"] > threshold_distance * threshold_distance
    /\ Flag("has_stairs_railing") => (Flag("has_railing") /\ accessibility_info.has_stairs)
    /\ \A k \in C29_PairFlags :
         Recorded(k[1]) <=> (Flag(k[2]) /\ Flag(k[3]))
    /\ accessibility_info.has_ramp = FALSE

\* a result with all three tags: stairs next to the door, a sidewalk away
\* from it, no railing, so that two of the three distances are recorded
C29_Witness ==
  /\ Returned /\ class_map = FullMap
  /\ HasTag("stairs") /\ HasTag("stairs_at_entrance") /\ HasTag("disconnected_sidewalk")
  /\ Recorded("stairs_to_door_distance") /\ Recorded("sidewalk_to_door_distance")
  /\ ~Flag("has_railing") /\ ~Recorded("railing_to_stairs_distance")
  /\ ~accessibility_info.has_ramp

(* ------------- get_facility_list over fetch_with_retry ----------------- *)
\* max_retries of fetch_with_retry, the default get_facility_list calls it with
FetchMaxRetries == 3

\* What one self.session.get does: an answer with status 200, an answer with
\* another status, or an exception.
RequestOutcomes == {"status200", "status500", "exception"}

\* The children of one servList element, as tag -> text; the text of an empty
\* element is None.
ServListRecords ==
  { [wfcltId |-> "W", faclNm |-> "a"],
    [wfcltId |-> "V"],
    [faclNm |-> "b"],
    [wfcltId |-> "", faclNm |-> "c"],
    [wfcltId |-> NoText] }

ServLists == UNION { [1..n -> ServListRecords] : n \in 0..MaxFacilities }

\* The body of an answer with status 200: an errMsg of SERVICE ERROR, a
\* document without totalCount, text that is not XML, or servList elements.
BodyFailures == {"service_error", "no_total_count", "malformed"}
ListBodies ==
  { [kind |-> k, records |-> <<>>] : k \in BodyFailures } \cup
  { [kind |-> "records", records |-> r] : r \in ServLists }

\* the address argument: None, '' or text with '_' between its parts
Addresses ==
  {None} \cup
  { Str(p) : p \in { <<>>, <<"s">>, <<"s", "_", "c">>,
                     <<"s", "_", "c", "_", "r">>,
                     <<"s", "_", "c", "_", "r", "_", "n">> } }

\* sep.join(parts)
RECURSIVE Join(_, _)
Join(parts, sep) ==
  IF parts = <<>> THEN <<>>
  ELSE IF Len(parts) = 1 THEN parts[1]
  ELSE parts[1] \o <<sep>> \o Join(Tail(parts), sep)

\* lines 96-117: the request parameters
request_params(address) ==
  LET base == [pageNo |-> "1", numOfRows |-> "100", type |-> "xml", salStaDivCd |-> "Y"]
  IN IF Truthy(address)
     THEN LET parts == Split(address.str, "_")
          IN IF Len(parts) >= 3
             THEN Put(Put(Put(base, "siDoNm", parts[1]), "cggNm", parts[2]),
                      "roadNm", Join(SubSeq(parts, 3, Len(parts)), " "))
             ELSE IF Len(parts) = 2
             THEN Put(Put(base, "siDoNm", parts[1]), "cggNm", parts[2])
             ELSE base
     ELSE base

fetchFrame == <<analyzerVars, explain, nearest, lookup, llm, batch, random_state, calls,
                prompt, client, analyzer, supervisor>>

InitFetch ==
  /\ AnalyzerUnused
  /\ fetch \in [address : Addresses, body : ListBodies, params : {None},
                attempt : {0}, outcomes : {<<>>}, slept : {<<>>},
                response : {None}, result : {None}, pc : {"called"}]
  /\ explain = Unused /\ nearest = Unused /\ lookup = Unused /\ llm = Unused
  /\ batch = Unused /\ random_state = Unused /\ calls = Unused
  /\ prompt = Unused /\ client = Unused /\ analyzer = Unused /\ supervisor = Unused

\* get_facility_list, lines 94-123: the parameters are built and
\* fetch_with_retry is entered
EnterFetch ==
  /\ fetch.pc = "called"
  /\ fetch' = [fetch EXCEPT !.params = request_params(fetch.address),
                            !.pc = "fetching"]
  /\ UNCHANGED fetchFrame

\* fetch_with_retry, lines 27-45: one pass of the loop. Status 200 returns
\* the response; an exception leaves the function on the last pass only;
\* otherwise the next pass follows at once (no statement waits).
Attempt ==
  /\ fetch.pc = "fetching"
  /\ fetch.attempt < FetchMaxRetries
  /\ \E o \in RequestOutcomes :
       fetch' = [fetch EXCEPT
                   !.outcomes = Append(@, o),
                   !.attempt = IF o = "status200" THEN @ ELSE @ + 1,
                   !.response = IF o = "status200" THEN fetch.body ELSE @,
                   !.pc = IF o = "status200" THEN "fetched"
                          ELSE IF o = "exception" /\ fetch.attempt = FetchMaxRetries - 1
                          THEN "fetch_raised"
                          ELSE "fetching"]
  /\ UNCHANGED fetchFrame

\* fetch_with_retry, line 47: the loop has ended, None is returned
Exhausted ==
  /\ fetch.pc = "fetching"
  /\ fetch.attempt >= FetchMaxRetries
  /\ fetch' = [fetch EXCEPT !.response = None, !.pc = "fetched"]
  /\ UNCHANGED fetchFrame

\* Variant: a record passes when it has the key, whatever its text.
KeepRecord_KeyOnly(facility) == "wfcltId" \in DOMAIN facility

\* lines 146-148: the record has a wfcltId that is neither None nor ''
KeepRecord(facility) ==
  "wfcltId" \in DOMAIN facility /\ facility["wfcltId"] \notin {"", NoText}

\* lines 122-162 on what fetch_with_retry gave: [] when it raised, returned
\* None, or the body fails to parse, carries SERVICE ERROR or lacks
\* totalCount (the handler of line 160); else the records that pass
parse_facility_list(fetched, response) ==
  IF fetched = "fetch_raised" \/ response = None THEN <<>>
  ELSE IF response.kind \in BodyFailures THEN <<>>
  ELSE SelectSeq(response.records, KeepRecord)

ReturnList ==
  /\ fetch.pc \in {"fetched", "fetch_raised"}
  /\ fetch' = [fetch EXCEPT !.result = parse_facility_list(fetch.pc, fetch.response),
                            !.pc = "returned"]
  /\ UNCHANGED fetchFrame

NextFetch ==
  \/ EnterFetch
  \/ Attempt
  \/ Exhausted
  \/ ReturnList

SpecFetch == InitFetch /\ [][NextFetch]_vars

\* attempt i was followed by another attempt
C22_Failed(i) == i < Len(fetch.outcomes)

(* C22: fetch_with_retry makes at most max_retries attempts, returns the
   first response with status 200, ends without a response when every attempt
   failed, and waits between attempts: after each failed attempt that is
   followed by another one a positive delay was waited, longer after a later
   attempt. *)
C22_RetriedWithBackoff ==
  /\ Len(fetch.outcomes) <= FetchMaxRetries
  /\ \A i \in 1..Len(fetch.outcomes) :
       fetch.outcomes[i] = "status200" => i = Len(fetch.outcomes)
  /\ fetch.pc = "fetched" =>
       IF fetch.response = None
       THEN /\ Len(fetch.outcomes) = FetchMaxRetries
            /\ \A i \in 1..FetchMaxRetries : fetch.outcomes[i] # "status200"
       ELSE fetch.outcomes[Len(fetch.outcomes)] = "status200"
  /\ \A i \in 1..FetchMaxRetries :
       C22_Failed(i) =>
         /\ Len(fetch.slept) >= i
         /\ fetch.slept[i] > 0
         /\ i > 1 => fetch.slept[i] > fetch.slept[i - 1]

\* the j-th record of the body that passes the filter
C23_Kept ==
  {i \in 1..Len(fetch.body.records) :
     /\ "wfcltId" \in DOMAIN fetch.body.records[i]
     /\ fetch.body.records[i]["wfcltId"] # ""
     /\ fetch.body.records[i]["wfcltId"] # NoText}
C23_KeptAt(j) ==
  CHOOSE i \in C23_Kept : Cardinality({k \in C23_Kept : k <= i}) = j

\* a request was answered with status 200 and a body of servList records
C23_Succeeded ==
  /\ fetch.outcomes # <<>>
  /\ fetch.outcomes[Len(fetch.outcomes)] = "status200"
  /\ fetch.body.kind = "records"

(* C23: get_facility_list always returns a list: after a request answered
   with status 200 and servList records, the records whose wfcltId is present
   and non-empty, in the order of the response, the others discarded; after
   any failure (no status 200 in three attempts, an exception on the last
   attempt, SERVICE ERROR, no totalCount, malformed XML) the empty list. It
   never ends with an exception. *)
C23_OnlyRecordsWithId ==
  /\ fetch.pc \in {"called", "fetching", "fetched", "fetch_raised", "returned"}
  /\ fetch.pc = "returned" =>
       IF C23_Succeeded
       THEN /\ Len(fetch.result) = Cardinality(C23_Kept)
            /\ \A j \in 1..Len(fetch.result) :
                 /\ fetch.result[j] = fetch.body.records[C23_KeptAt(j)]
                 /\ "wfcltId" \in DOMAIN fetch.result[j]
                 /\ fetch.result[j]["wfcltId"] \notin {"", NoText}
       ELSE fetch.result = <<>>

\* two records with an identifier returned in order, the record between them
\* (empty identifier) discarded, after two failed attempts
C23_Witness ==
  /\ fetch.pc = "returned"
  /\ fetch.outcomes = <<"exception", "status500", "status200">>
  /\ fetch.body.kind = "records"
  /\ Len(fetch.body.records) = 3
  /\ fetch.body.records[2] = [wfcltId |-> "", faclNm |-> "c"]
  /\ fetch.result = << [wfcltId |-> "V"], [wfcltId |-> "W", faclNm |-> "a"] >>

(* --------------------------- create_prompt ---------------------------- *)
\* The prompt is kept as its lines, each a label for the fixed text of the
\* line and the pieces of the text formatted into it.
Line(label, text) == [label |-> label, text |-> text]
\* str(v) of a bool, as an f-string formats it
FormatBool(b) == IF b THEN "True" ELSE "False"

\* The results of analyze the prompt is composed for: a dict without
\* findings, one without obstacle_details and score, a scored result.
AccessInfos ==
  { InitialInfo,
    [has_stairs |-> FALSE],
    [has_stairs |-> TRUE, has_ramp |-> FALSE, entrance_accessible |-> FALSE,
     obstacles |-> <<"stairs", "stairs_at_entrance">>, has_sidewalk |-> TRUE,
     obstacle_details |-> [stairs_to_door_distance |-> 1],
     accessibility_score |-> 5] }

\* facility_info['basic_info']: missing (Absent), None, {} or a record, a
\* field of which may be None
Absent == [absent |-> TRUE]
BasicInfos ==
  { None, <<>>, [faclNm |-> "n", lcMnad |-> "a", estbDate |-> "d"],
    [faclNm |-> "n", lcMnad |-> NoText] }
\* facility_info['facility_features']
FeatureInfos ==
  { None, <<>>, [evalInfo |-> None], [evalInfo |-> List(<<>>)],
    [evalInfo |-> List(<<"f">>)], [evalInfo |-> List(<<"f", "g">>)] }
\* facility_info['accessibility_details'], with the entries
\* get_facility_info gives it
DetailInfos ==
  { None, <<>>,
    [entrance |-> [accessible |-> TRUE, features |-> List(<<"f">>)],
     parking |-> [available |-> FALSE, features |-> List(<<>>)],
     restroom |-> [available |-> TRUE, features |-> List(<<"f", "g">>)],
     elevator |-> [available |-> TRUE]],
    [entrance |-> [accessible |-> FALSE], parking |-> None, elevator |-> [available |-> FALSE]],
    [restroom |-> [features |-> List(<<"g">>)]] }

\* a dict with the entries of fields whose value is not Absent
DictOf(fields) == [k \in {f \in DOMAIN fields : fields[f] # Absent} |-> fields[k]]

MarkerMessages == {"m1", "m2"}
\* the facility_info argument: None, {}, the unavailable marker with and
\* without a message, an available record
FacilityInputs ==
  {None, <<>>, [available |-> FALSE], [message |-> "m1"]} \cup
  { [available |-> FALSE, message |-> m] : m \in MarkerMessages } \cup
  { [available |-> TRUE] @@ DictOf([basic_info |-> b, facility_features |-> f,
                                    accessibility_details |-> d]) :
      b \in BasicInfos \cup {Absent}, f \in FeatureInfos \cup {Absent},
      d \in DetailInfos \cup {Absent} }

\* d.get(k) with None for a missing key
GetOrNone(d, k) == Get(d, k, None)

\* ', '.join(x): TypeError unless x is a list
CommaJoin(x) ==
  IF TypeOf(x) = "list"
  THEN [raised |-> "none", text |-> Join([i \in 1..Len(x.list) |-> <<x.list[i]>>], ", ")]
  ELSE [raised |-> "TypeError", text |-> <<>>]

\* lines 37-45: the findings
FindingLines(info) ==
  << Line("has_stairs", <<FormatBool(Get(info, "has_stairs", FALSE))>>),
     Line("has_ramp", <<FormatBool(Get(info, "has_ramp", FALSE))>>),
     Line("entrance_accessible", <<FormatBool(Get(info, "entrance_accessible", TRUE))>>),
     Line("obstacles",
          IF Get(info, "obstacles", <<>>) # <<>>
          THEN Join([i \in 1..Len(info.obstacles) |-> <<info.obstacles[i]>>], ", ")
          ELSE <<"none">>),
     Line("has_sidewalk", <<FormatBool(Get(info, "has_sidewalk", FALSE))>>) >>

\* lines 48-51: one line per entry of obstacle_details
RECURSIVE DetailLines(_, _)
DetailLines(details, keys) ==
  IF keys = {} THEN <<>>
  ELSE LET k == CHOOSE x \in keys : TRUE
       IN <<Line("obstacle_detail", <<k>>)>> \o DetailLines(details, keys \ {k})

\* lines 54-65
ScoreLines(info) ==
  IF "accessibility_score" \in DOMAIN info
  THEN << Line("external_accessibility_score", <<info.accessibility_score>>),
          Line("score_note", <<>>) >>
  ELSE <<>>

\* lines 73-77
BasicLines(facility_info) ==
  IF Truthy(GetOrNone(facility_info, "basic_info"))
  THEN LET basic == facility_info["basic_info"]
       IN << Line("faclNm", <<Get(basic, "faclNm", "no information")>>),
             Line("lcMnad", <<Get(basic, "lcMnad", "no information")>>),
             Line("estbDate", <<Get(basic, "estbDate", "no information")>>) >>
  ELSE <<>>

\* lines 80-83
FeatureLines(facility_info) ==
  IF /\ Truthy(GetOrNone(facility_info, "facility_features"))
     /\ Truthy(GetOrNone(facility_info["facility_features"], "evalInfo"))
  THEN LET evalInfo == facility_info["facility_features"]["evalInfo"].list
       IN <<Line("features", <<>>)>> \o
          [i \in 1..Len(evalInfo) |-> Line("feature", <<evalInfo[i]>>)]
  ELSE <<>>

\* lines 88-98: the lines of one entry of accessibility_details; flag is the
\* key of its bool, listed tells whether its features are joined
EntryLines(details, entry, flag, listed) ==
  IF Truthy(GetOrNone(details, entry))
  THEN LET joined == CommaJoin(Get(details[entry], "features", List(<<>>)))
       IN IF listed /\ joined.raised # "none"
          THEN [raised |-> joined.raised, text |-> <<>>]
          ELSE [raised |-> "none",
                text |-> <<Line(entry, <<FormatBool(Get(details[entry], flag, FALSE))>>)>> \o
                         (IF listed THEN <<Line(entry \o "_features", joined.text)>> ELSE <<>>)]
  ELSE [raised |-> "none", text |-> <<>>]

\* lines 86-98
AccessibilityLines(facility_info) ==
  IF Truthy(GetOrNone(facility_info, "accessibility_details"))
  THEN LET details == facility_info["accessibility_details"]
           parts == << EntryLines(details, "entrance", "accessible", TRUE),
                       EntryLines(details, "parking", "available", TRUE),
                       EntryLines(details, "restroom", "available", TRUE),
                       EntryLines(details, "elevator", "available", FALSE) >>
       IN IF \E i \in 1..4 : parts[i].raised # "none"
          THEN [raised |-> parts[CHOOSE i \in 1..4 :
                                   /\ parts[i].raised # "none"
                                   /\ \A j \in 1..(i - 1) : parts[j].raised = "none"].raised,
                text |-> <<>>]
          ELSE [raised |-> "none",
                text |-> parts[1].text \o parts[2].text \o parts[3].text \o parts[4].text]
  ELSE [raised |-> "none", text |-> <<>>]

\* Variant: the message is read with an index instead of .get.
MarkerLine_Index(facility_info) ==
  IF "message" \in DOMAIN facility_info
  THEN [raised |-> "none", text |-> <<Line("message", <<facility_info["message"]>>)>>]
  ELSE [raised |-> "KeyError", text |-> <<>>]

\* line 100
MarkerLine(facility_info) ==
  [raised |-> "none",
   text |-> <<Line("message", <<Get(facility_info, "message", "no facility found")>>)>>]

\* lines 68-100
FacilityLines(facility_info) ==
  IF Truthy(facility_info)
  THEN LET body == IF Get(facility_info, "available", FALSE)
                   THEN LET access == AccessibilityLines(facility_info)
                        IN [raised |-> access.raised,
                            text |-> BasicLines(facility_info) \o
                                     FeatureLines(facility_info) \o access.text]
                   ELSE MarkerLine(facility_info)
       IN [raised |-> body.raised, text |-> <<Line("facility_data", <<>>)>> \o body.text]
  ELSE [raised |-> "none", text |-> <<>>]

\* create_prompt, lines 26-145
create_prompt(info, facility_info) ==
  LET facility == FacilityLines(facility_info)
  IN IF facility.raised # "none"
     THEN [raised |-> facility.raised, text |-> None]
     ELSE [raised |-> "none",
           text |-> FindingLines(info) \o
                    (IF "obstacle_details" \in DOMAIN info
                     THEN <<Line("obstacle_details", <<>>)>> \o
                          DetailLines(info.obstacle_details, DOMAIN info.obstacle_details)
                     ELSE <<>>) \o
                    ScoreLines(info) \o facility.text \o <<Line("instructions", <<>>)>>]

promptFrame == <<analyzerVars, explain, nearest, lookup, llm, batch, random_state, calls,
                 fetch, client, analyzer, supervisor>>

InitPrompt ==
  /\ AnalyzerUnused
  /\ prompt \in [accessibility_info : AccessInfos, facility_info : FacilityInputs,
                 result : {None}, raised : {"none"}, pc : {"called"}]
  /\ explain = Unused /\ nearest = Unused /\ lookup = Unused /\ llm = Unused
  /\ batch = Unused /\ random_state = Unused /\ calls = Unused
  /\ fetch = Unused /\ client = Unused /\ analyzer = Unused /\ supervisor = Unused

\* one call of create_prompt: it returns the prompt or raises
CreatePrompt ==
  /\ prompt.pc = "called"
  /\ LET outcome == create_prompt(prompt.accessibility_info, prompt.facility_info)
     IN prompt' = [prompt EXCEPT
                     !.result = outcome.text,
                     !.raised = outcome.raised,
                     !.pc = IF outcome.raised = "none" THEN "returned" ELSE "raised"]
  /\ UNCHANGED promptFrame

NextPrompt == CreatePrompt

SpecPrompt == InitPrompt /\ [][NextPrompt]_vars

\* the labels of the lines that describe an available facility
C24_DetailLabels ==
  {"faclNm", "lcMnad", "estbDate", "features", "feature", "entrance",
   "entrance_features", "parking", "parking_features", "restroom",
   "restroom_features", "elevator"}
C24_Labels == { prompt.result[i].label : i \in 1..Len(prompt.result) }
\* facility_info is the unavailable marker
C24_IsMarker ==
  /\ prompt.facility_info # None
  /\ DOMAIN prompt.facility_info # {}
  /\ ~Get(prompt.facility_info, "available", FALSE)
C24_MessageLines ==
  { prompt.result[i].text : i \in {j \in 1..Len(prompt.result) :
                                       prompt.result[j].label = "message"} }

(* C24: create_prompt returns a text and never raises, whether facility_info
   is absent, is the unavailable marker with or without a message, or is an
   available record whose basic_info, facility_features/evalInfo or
   accessibility_details are missing or None; for the unavailable marker the
   text has one message line, carrying the marker's message (the default text
   when it has none), and none of the lines that describe a facility. *)
C24_PromptNeverRaises ==
  /\ prompt.pc # "raised"
  /\ prompt.pc = "returned" =>
       /\ prompt.raised = "none"
       /\ "instructions" \in C24_Labels
       /\ IF C24_IsMarker
          THEN /\ C24_MessageLines =
                    { <<Get(prompt.facility_info, "message", "no facility found")>> }
               /\ C24_Labels \cap C24_DetailLabels = {}
          ELSE "message" \notin C24_Labels

\* the unavailable marker with a message: the prompt carries it
C24_Witness ==
  /\ prompt.pc = "returned"
  /\ prompt.facility_info = [available |-> FALSE, message |-> "m2"]
  /\ \E i \in 1..Len(prompt.result) : prompt.result[i] = Line("message", <<"m2">>)
  /\ \E i \in 1..Len(prompt.result) : prompt.result[i].label = "facility_data"

(* ---------------- APIClient._send_request_with_retry ------------------ *)
\* The largest max_retries (API_MAX_RETRIES) a client is called with.
MaxRetries == 3

RECURSIVE Power(_, _)
Power(b, k) == IF k = 0 THEN 1 ELSE b * Power(b, k - 1)

\* The body of a 200/201 answer: a JSON object, another JSON value (an
\* array), or text that is not JSON.
JsonBodies == {"object", "array", "not_json"}
\* The Retry-After header of a 429 answer: missing, seconds, or an HTTP date.
RetryAfterHeaders == {Absent, IntValue(7), Str(<<"Wed, 21 Oct 2015 07:28:00 GMT">>)}
\* What one requests.post does: an answer, or an exception.
ClientOutcomes ==
  { [kind |-> "response", status |-> s, body |-> b, retry_after |-> Absent] :
      s \in {200, 201}, b \in JsonBodies } \cup
  { [kind |-> "response", status |-> 429, body |-> "not_json", retry_after |-> h] :
      h \in RetryAfterHeaders } \cup
  { [kind |-> "response", status |-> s, body |-> "not_json", retry_after |-> Absent] :
      s \in {302, 404, 500, 503} } \cup
  { [kind |-> k, status |-> 0, body |-> "not_json", retry_after |-> Absent] :
      k \in {"Timeout", "ConnectionError", "TooManyRedirects"} }

\* the values the function returns
JsonValue(body) == [type |-> IF body = "object" THEN "dict" ELSE "list", is |-> "reply"]
ErrorDict(why) == [type |-> "dict", is |-> why]
SuccessDict == [type |-> "dict", is |-> "success without JSON"]

\* int(response.headers.get('Retry-After', 5)): the seconds, or ValueError
RetryAfterSeconds(header) ==
  IF header = Absent THEN [raised |-> "none", seconds |-> 5]
  ELSE IF TypeOf(header) = "int" THEN [raised |-> "none", seconds |-> header.int]
  ELSE [raised |-> "ValueError", seconds |-> 0]

\* lines 100-146: what one pass of the loop does with the outcome of its
\* request: return a value, or count a retry and sleep
handle_outcome(o, retries) ==
  IF o.kind = "response"
  THEN IF o.status \in {200, 201}
       THEN [return |-> TRUE, retries |-> retries, sleep |-> 0,
             result |-> IF o.body = "not_json" THEN SuccessDict ELSE JsonValue(o.body)]
       ELSE IF o.status = 429
       THEN LET wait_time == RetryAfterSeconds(o.retry_after)
            IN IF wait_time.raised = "none"
               THEN [return |-> FALSE, retries |-> retries + 1,
                     sleep |-> wait_time.seconds, result |-> None]
               ELSE [return |-> TRUE, retries |-> retries + 1, sleep |-> 0,
                     result |-> ErrorDict("exception")]
       ELSE IF o.status >= 500
       THEN [return |-> FALSE, retries |-> retries + 1,
             sleep |-> Power(2, retries + 1), result |-> None]
       ELSE [return |-> TRUE, retries |-> retries, sleep |-> 0,
             result |-> ErrorDict("api error")]
  ELSE IF o.kind = "Timeout"
  THEN [return |-> FALSE, retries |-> retries + 1,
        sleep |-> Power(2, retries + 1), result |-> None]
  ELSE IF o.kind = "ConnectionError"
  THEN [return |-> FALSE, retries |-> retries + 1,
        sleep |-> Power(3, retries + 1), result |-> None]
  ELSE [return |-> TRUE, retries |-> retries, sleep |-> 0, result |-> ErrorDict("exception")]

clientFrame == <<analyzerVars, explain, nearest, lookup, llm, batch, random_state, calls,
                 fetch, prompt, analyzer, supervisor>>

InitClient ==
  /\ AnalyzerUnused
  /\ client \in [max_retries : 0..MaxRetries, retries : {0}, outcomes : {<<>>},
                 slept : {<<>>}, result : {None}, pc : {"sending"}]
  /\ explain = Unused /\ nearest = Unused /\ lookup = Unused /\ llm = Unused
  /\ batch = Unused /\ random_state = Unused /\ calls = Unused
  /\ fetch = Unused /\ prompt = Unused /\ analyzer = Unused /\ supervisor = Unused

\* lines 99-146: one pass of the loop, the sleep that ends it included
SendRequest ==
  /\ client.pc = "sending"
  /\ client.retries < client.max_retries
  /\ \E o \in ClientOutcomes :
       LET h == handle_outcome(o, client.retries)
       IN client' = [client EXCEPT
                       !.outcomes = Append(@, o),
                       !.retries = h.retries,
                       !.slept = IF h.return THEN @ ELSE Append(@, h.sleep),
                       !.result = h.result,
                       !.pc = IF h.return THEN "returned" ELSE "sending"]
  /\ UNCHANGED clientFrame

\* line 149: the loop has ended
GiveUp ==
  /\ client.pc = "sending"
  /\ client.retries >= client.max_retries
  /\ client' = [client EXCEPT !.result = ErrorDict("maximum retries exceeded"),
                              !.pc = "returned"]
  /\ UNCHANGED clientFrame

NextClient ==
  \/ SendRequest
  \/ GiveUp

SpecClient == InitClient /\ [][NextClient]_vars

\* the outcomes the claim calls retried
C25_Retried(o) ==
  \/ o.kind \in {"Timeout", "ConnectionError"}
  \/ o.kind = "response" /\ (o.status = 429 \/ o.status >= 500)
\* the wait the claim gives for the k-th retried outcome
C25_Wait(o, k) ==
  IF o.kind = "ConnectionError" THEN Power(3, k)
  ELSE IF o.kind = "response" /\ o.status = 429
  THEN (IF TypeOf(o.retry_after) = "int" THEN o.retry_after.int ELSE 5)
  ELSE Power(2, k)

(* C25: _send_request_with_retry returns a dict after at most max_retries
   requests: a 200/201 answer returns at once as success, a 4xx answer other
   than 429 at once as an error; 429, 5xx, timeout and connection error are
   retried, each counted once and followed by its wait (Retry-After or 5 s;
   2^k; 3^k), and after max_retries of them the 'maximum retries exceeded'
   error is returned. *)
C25_RetryPolicy ==
  LET n == Len(client.outcomes)
  IN /\ n <= client.max_retries
     /\ client.pc = "returned" => client.result.type = "dict"
     /\ \A i \in 1..n :
          LET o == client.outcomes[i]
          IN IF C25_Retried(o)
             THEN /\ Len(client.slept) >= i
                  /\ client.slept[i] = C25_Wait(o, i)
                  /\ client.retries >= i
             ELSE /\ i = n /\ client.pc = "returned"
                  /\ o.status \in {200, 201} => client.result.is \in {"reply", "success without JSON"}
                  /\ o.status \in 400..499 => client.result.is = "api error"
     /\ (client.pc = "returned" /\ n > 0 /\ C25_Retried(client.outcomes[n])) =>
          /\ n = client.max_retries
          /\ client.result = ErrorDict("maximum retries exceeded")

(* --------------------- LLMAnalyzer.analyze_image ---------------------- *)
\* The text of the reply's first content block.
ReplyTexts == { <<"{", "}">>, <<"{", "k", "}">>, <<"x", "{">>, <<>> }
\* What one requests.post does, seen through raise_for_status and
\* response.json(): a reply with a content text, a 2xx body without it or
\* without JSON, an HTTP error status, or an exception of requests.
AnalyzerOutcomes ==
  { [kind |-> "reply", status |-> 200, text |-> t, retry_after |-> Absent] :
      t \in ReplyTexts } \cup
  { [kind |-> k, status |-> 200, text |-> <<>>, retry_after |-> Absent] :
      k \in {"no_content", "not_json"} } \cup
  { [kind |-> "HTTPError", status |-> 429, text |-> <<>>, retry_after |-> h] :
      h \in RetryAfterHeaders } \cup
  { [kind |-> "HTTPError", status |-> s, text |-> <<>>, retry_after |-> Absent] :
      s \in {400, 500} } \cup
  { [kind |-> k, status |-> 0, text |-> <<>>, retry_after |-> Absent] :
      k \in {"Timeout", "ConnectionError", "TooManyRedirects"} }

Reply(value) == [kind |-> "reply", value |-> value]
Error(why) == [kind |-> "error", value |-> why]

\* int(e.response.headers.get('Retry-After', 60)), line 234
RetryAfterOrMinute(header) ==
  IF header = Absent THEN [raised |-> "none", seconds |-> 60]
  ELSE RetryAfterSeconds(header)

\* Variant: the test for the last attempt is off by one.
retries_exhausted_Above(retries, max) == retries > max

\* lines 226 and 236: if retries == API_MAX_RETRIES
retries_exhausted(retries, max) == retries = max

\* lines 214-245: what one pass of the loop does with the outcome of its
\* request: return a value, or count a retry and sleep
handle_reply(o, retries, max) ==
  IF o.kind = "reply"
  THEN [return |-> TRUE, retries |-> retries, sleep |-> 0,
        result |-> Reply(parse_llm_response(o.text))]
  ELSE IF o.kind \in {"Timeout", "ConnectionError"}
  THEN IF retries_exhausted(retries + 1, max)
       THEN [return |-> TRUE, retries |-> retries + 1, sleep |-> 0,
             result |-> Error("maximum retries exceeded")]
       ELSE [return |-> FALSE, retries |-> retries + 1,
             sleep |-> Power(2, retries + 1), result |-> None]
  ELSE IF o.kind = "HTTPError"
  THEN IF o.status = 429
       THEN LET wait_time == RetryAfterOrMinute(o.retry_after)
            IN IF wait_time.raised # "none"
               THEN [return |-> TRUE, retries |-> retries + 1, sleep |-> 0,
                     result |-> Error("analysis failed")]
               ELSE IF retries_exhausted(retries + 1, max)
               THEN [return |-> TRUE, retries |-> retries + 1, sleep |-> 0,
                     result |-> Error("rate limit exceeded")]
               ELSE [return |-> FALSE, retries |-> retries + 1,
                     sleep |-> wait_time.seconds, result |-> None]
       ELSE [return |-> TRUE, retries |-> retries, sleep |-> 0,
             result |-> Error("HTTP error")]
  ELSE [return |-> TRUE, retries |-> retries, sleep |-> 0, result |-> Error("exception")]

imageFrame == <<analyzerVars, explain, nearest, lookup, llm, batch, random_state, calls,
                fetch, prompt, client, supervisor>>

\* analyze_image is called; API_MAX_RETRIES is the constant of config
InitImage ==
  /\ AnalyzerUnused
  /\ analyzer \in [API_MAX_RETRIES : 0..MaxRetries, retries : {0}, outcomes : {<<>>},
                   slept : {<<>>}, result : {None}, pc : {"called"}]
  /\ explain = Unused /\ nearest = Unused /\ lookup = Unused /\ llm = Unused
  /\ batch = Unused /\ random_state = Unused /\ calls = Unused
  /\ fetch = Unused /\ prompt = Unused /\ client = Unused /\ supervisor = Unused

\* lines 162-168: the prompt is made and both images are encoded; a failed
\* encoding (None) of either ends the call
EncodeImages ==
  /\ analyzer.pc = "called"
  /\ \E original_ok, overlay_ok \in BOOLEAN :
       analyzer' = IF original_ok /\ overlay_ok
                   THEN [analyzer EXCEPT !.pc = "sending"]
                   ELSE [analyzer EXCEPT !.result = Error("image encoding failed"),
                                         !.pc = "returned"]
  /\ UNCHANGED imageFrame

\* lines 213-245: one pass of the loop
PostRequest ==
  /\ analyzer.pc = "sending"
  /\ analyzer.retries < analyzer.API_MAX_RETRIES
  /\ \E o \in AnalyzerOutcomes :
       LET h == handle_reply(o, analyzer.retries, analyzer.API_MAX_RETRIES)
       IN analyzer' = [analyzer EXCEPT
                         !.outcomes = Append(@, o),
                         !.retries = h.retries,
                         !.slept = IF h.return THEN @ ELSE Append(@, h.sleep),
                         !.result = h.result,
                         !.pc = IF h.return THEN "returned" ELSE "sending"]
  /\ UNCHANGED imageFrame

\* the loop ends on its condition: the function ends without a return
\* statement, which returns None
FallThrough ==
  /\ analyzer.pc = "sending"
  /\ analyzer.retries >= analyzer.API_MAX_RETRIES
  /\ analyzer' = [analyzer EXCEPT !.result = None, !.pc = "returned"]
  /\ UNCHANGED imageFrame

NextImage ==
  \/ EncodeImages
  \/ PostRequest
  \/ FallThrough

SpecImage == InitImage /\ [][NextImage]_vars

C26_Retried(o) ==
  \/ o.kind \in {"Timeout", "ConnectionError"}
  \/ o.kind = "HTTPError" /\ o.status = 429

(* C26: with API_MAX_RETRIES >= 1, analyze_image sends at most
   API_MAX_RETRIES requests and returns either the parsed reply or a dict
   with 'error', never None: a request is followed by another one only after
   a timeout, a connection error or HTTP 429; another HTTP error or exception
   ends the call with an error; the failed attempt number API_MAX_RETRIES
   returns without a sleep (one sleep per earlier failed attempt); a failed
   image encoding returns an error before any request. *)
C26_AlwaysReturnsValue ==
  analyzer.API_MAX_RETRIES >= 1 =>
    LET n == Len(analyzer.outcomes)
    IN /\ n <= analyzer.API_MAX_RETRIES
       /\ analyzer.pc = "returned" =>
            /\ analyzer.result # None
            /\ analyzer.result.kind \in {"reply", "error"}
            /\ analyzer.result.kind = "reply" =>
                 /\ n > 0 /\ analyzer.outcomes[n].kind = "reply"
                 /\ analyzer.result.value = parse_llm_response(analyzer.outcomes[n].text)
            /\ n = 0 => analyzer.result = Error("image encoding failed")
       /\ \A i \in 1..(n - 1) : C26_Retried(analyzer.outcomes[i])
       /\ (n > 0 /\ ~C26_Retried(analyzer.outcomes[n])) =>
            /\ analyzer.pc = "returned"
            /\ analyzer.outcomes[n].kind # "reply" => analyzer.result.kind = "error"
       /\ Len(analyzer.slept) <= n
       /\ n = analyzer.API_MAX_RETRIES => Len(analyzer.slept) < n
       /\ analyzer.pc = "sending" => Len(analyzer.slept) = n

\* two timeouts were waited for, the third attempt (the last of three) timed
\* out too and the call returned the error without a third sleep
C26_Witness ==
  /\ analyzer.pc = "returned"
  /\ analyzer.API_MAX_RETRIES = 3
  /\ Len(analyzer.outcomes) = 3
  /\ \A i \in 1..3 : analyzer.outcomes[i].kind = "Timeout"
  /\ analyzer.slept = <<2, 4>>
  /\ analyzer.result = Error("maximum retries exceeded")

(* ------------------------- start_servers.main ------------------------- *)
Signals == {"SIGINT", "SIGTERM"}

\* shutdown_process(process), lines 43-73, by the state of the process and
\* of its child processes: what they are after the run. None returns at
\* once. For a process that is gone psutil.Process raises NoSuchProcess,
\* which line 72 catches: nothing is touched. A running process and its
\* children are sent SIGTERM; when the process exits within the 5 s of wait
\* the children still running are killed; when it does not, wait raises
\* TimeoutExpired, line 72 catches it, and no one is killed.
shutdown_process(process, children) ==
  IF process = "none" THEN { <<"none", children>> }
  ELSE IF process = "exited" THEN { <<"exited", children>> }
  ELSE { <<"exited", IF children = "none" THEN "none" ELSE "exited">>,
         <<"running", children>>,
         <<"running", IF children = "none" THEN "none" ELSE "exited">> }

supervisorFrame == <<analyzerVars, explain, nearest, lookup, llm, batch, random_state, calls,
                     fetch, prompt, client, analyzer>>

\* main is entered: no process, the default signal handlers
InitSupervisor ==
  /\ AnalyzerUnused
  /\ supervisor \in [api_only : BOOLEAN, server : {"none"}, children : {"none"},
                     processes : {<<>>},
                     handlers : {{}}, runs : {<<>>}, signals : {<<>>},
                     status : {None}, cause : {"running"}, pc : {"start"}]
  /\ explain = Unused /\ nearest = Unused /\ lookup = Unused /\ llm = Unused
  /\ batch = Unused /\ random_state = Unused /\ calls = Unused
  /\ fetch = Unused /\ prompt = Unused /\ client = Unused /\ analyzer = Unused

\* start_fastapi_server, lines 17-22: the server process is launched; it may
\* start child processes of its own
Popen ==
  /\ supervisor.pc = "start"
  /\ \E c \in {"none", "running"} :
       supervisor' = [supervisor EXCEPT !.server = "running", !.children = c,
                                        !.pc = "starting"]
  /\ UNCHANGED supervisorFrame

\* the server process ends by itself
ServerExits ==
  /\ supervisor.pc # "exited"
  /\ supervisor.server = "running"
  /\ supervisor' = [supervisor EXCEPT !.server = "exited"]
  /\ UNCHANGED supervisorFrame

\* lines 25-34 and 84-91: after the sleep of 2 s, poll(): a server that is
\* gone makes main exit with status 1, a running one is appended to
\* processes (and its output thread started)
CheckStarted ==
  /\ supervisor.pc = "starting"
  /\ supervisor' =
       IF supervisor.server = "exited"
       THEN [supervisor EXCEPT !.status = IntValue(1), !.cause = "start_failed",
                               !.pc = "exited"]
       ELSE [supervisor EXCEPT !.processes = <<"api_server">>, !.pc = "started"]
  /\ UNCHANGED supervisorFrame

\* line 101: signal.signal(signal.SIGINT, signal_handler)
InstallSigint ==
  /\ supervisor.pc = "started"
  /\ supervisor' = [supervisor EXCEPT !.handlers = @ \cup {"SIGINT"},
                                      !.pc = "sigint_installed"]
  /\ UNCHANGED supervisorFrame

\* lines 102-104: signal.signal(signal.SIGTERM, signal_handler), and the try
\* block is entered
InstallSigterm ==
  /\ supervisor.pc = "sigint_installed"
  /\ supervisor' = [supervisor EXCEPT !.handlers = @ \cup {"SIGTERM"},
                                      !.pc = "supervising"]
  /\ UNCHANGED supervisorFrame

\* one run of shutdown_process on the server: the run is logged with the
\* state it found, and the server becomes after
RunShutdown(s, after) ==
  [s EXCEPT !.runs = Append(@, [found |-> s.server, raised |-> "none"]),
            !.server = after[1], !.children = after[2]]

\* lines 108-118: the loop sees that the server is gone and reports it
ChildGone ==
  /\ supervisor.pc = "supervising"
  /\ supervisor.server = "exited"
  /\ supervisor' = [supervisor EXCEPT !.pc = "finally"]
  /\ UNCHANGED supervisorFrame

\* lines 120-123: the finally block runs shutdown_process on every process
\* and main returns
Finally ==
  /\ supervisor.pc = "finally"
  /\ \E after \in shutdown_process(supervisor.server, supervisor.children) :
       supervisor' = [RunShutdown(supervisor, after) EXCEPT
                        !.status = IntValue(0), !.cause = "child_exit", !.pc = "exited"]
  /\ UNCHANGED supervisorFrame

\* A signal reaches the supervisor. With signal_handler installed for it
\* (lines 94-99): shutdown_process on every process, then sys.exit(0), whose
\* SystemExit passes through the finally block (lines 120-123, a second
\* shutdown_process) when main is inside the try, and leaves the finally
\* block when main is already in it. Without it: SIGINT raises
\* KeyboardInterrupt where main is, which is before the try, so main ends
\* with the exception; SIGTERM ends the program at once.
Signal(sig) ==
  /\ supervisor.pc # "exited"
  /\ LET got == [supervisor EXCEPT !.signals = Append(@, sig)]
     IN IF sig \in supervisor.handlers
        THEN \E first \in shutdown_process(supervisor.server, supervisor.children) :
               LET handled == RunShutdown(got, first)
               IN IF supervisor.pc = "supervising"
                  THEN \E second \in shutdown_process(first[1], first[2]) :
                         supervisor' = [RunShutdown(handled, second) EXCEPT
                                          !.status = IntValue(0),
                                          !.cause = "signal_handler",
                                          !.pc = "exited"]
                  ELSE supervisor' = [handled EXCEPT !.status = IntValue(0),
                                                     !.cause = "signal_handler",
                                                     !.pc = "exited"]
        ELSE supervisor' = [got EXCEPT
                              !.status = Str(<<sig>>),
                              !.cause = IF sig = "SIGINT" THEN "KeyboardInterrupt"
                                        ELSE "killed",
                              !.pc = "exited"]
  /\ UNCHANGED supervisorFrame

DeliverSignal == \E sig \in Signals : Signal(sig)

NextSupervisor ==
  \/ Popen
  \/ ServerExits
  \/ CheckStarted
  \/ InstallSigint
  \/ InstallSigterm
  \/ ChildGone
  \/ Finally
  \/ DeliverSignal

SpecSupervisor == InitSupervisor /\ [][NextSupervisor]_vars

(* C30: once the server process has been started (start_fastapi_server
   returned it), every end of the supervisor by the child's exit, by a
   KeyboardInterrupt or by a signal that signal_handler handled has run
   shutdown_process on the server, once or twice, no run raising; and when
   the server fails to start main exits with status 1, without a handler
   installed and without a shutdown run. *)
C30_ShutdownBeforeExit ==
  supervisor.pc = "exited" =>
    /\ (/\ supervisor.processes # <<>>
        /\ supervisor.cause \in {"child_exit", "KeyboardInterrupt", "signal_handler"}) =>
          /\ Len(supervisor.runs) \in {1, 2}
          /\ \A i \in 1..Len(supervisor.runs) : supervisor.runs[i].raised = "none"
    /\ supervisor.cause = "start_failed" =>
          /\ supervisor.status = IntValue(1)
          /\ supervisor.handlers = {}
          /\ supervisor.runs = <<>>

====
